----------------------------- MODULE TopicMatch -----------------------------
(***************************************************************************)
(* Topics and subscriptions as strings: which are valid and which match    *)
(* (src/lib/util_mosq.c), and the levels they consist of (src/src/subs.c). *)
(* A string is a sequence of characters.  The broker matches with          *)
(* topic_matches_sub for access control and bridges, clients use it, and   *)
(* subscriptions are matched by the tree of module SubTree.                *)
(***************************************************************************)
EXTENDS Naturals, Sequences, FiniteSets

(* str[i] of C, from 0; at its length there is the terminator.              *)
At(str, i) == IF i < Len(str) THEN str[i + 1] ELSE "end"

(* mosquitto_pub_topic_check.                                               *)
pub_topic_check(str) == \A i \in DOMAIN str : str[i] \notin {"+", "#"}

(* mosquitto_sub_topic_check: a wildcard fills its level, "#" is last.      *)
sub_topic_check(str) ==
  \A i \in 0..(Len(str) - 1) :
    At(str, i) \in {"+", "#"} =>
      /\ i = 0 \/ At(str, i - 1) = "/"
      /\ At(str, i + 1) = "end" \/ (At(str, i) = "+" /\ At(str, i + 1) = "/")

(* The position at or after t where a level of the topic ends.              *)
LevelEnd(topic, t) ==
  CHOOSE e \in t..Len(topic) :
    /\ e = Len(topic) \/ At(topic, e) = "/"
    /\ \A i \in t..(e - 1) : At(topic, i) # "/"

(* "foo" matches "foo/#": s is the last character before "/#".              *)
ParentOfHash(sub, s) ==
  s + 3 = Len(sub) /\ At(sub, s + 1) = "/" /\ At(sub, s + 2) = "#"

(* mosquitto_topic_matches_sub2 for a subscription that passes              *)
(* sub_topic_check: m[s, t] is the loop from these positions on.            *)
topic_matches_sub(sub, topic) ==
  LET slen == Len(sub)
      tlen == Len(topic)
      m[s \in 0..slen, t \in 0..tlen] ==
        IF s = slen THEN FALSE
        ELSE IF At(sub, s) = At(topic, t)
        THEN \/ t + 1 = tlen /\ ParentOfHash(sub, s)
             \/ s + 1 = slen /\ t + 1 = tlen
             \/ t + 1 = tlen /\ s + 2 = slen /\ At(sub, s + 1) = "+"
             \/ m[s + 1, t + 1]
        ELSE CASE At(sub, s) = "+" ->
                    LET e == LevelEnd(topic, t)
                    IN  (e = tlen /\ s + 1 = slen) \/ m[s + 1, e]
               [] At(sub, s) = "#" -> TRUE
               [] OTHER -> \* "foo/bar" matches "foo/+/#"
                    /\ s > 0 /\ t = tlen /\ At(sub, s - 1) = "+"
                    /\ s + 2 = slen /\ At(sub, s) = "/" /\ At(sub, s + 1) = "#"
  IN  slen > 0 /\ tlen > 0 /\ (At(sub, 0) = "$") = (At(topic, 0) = "$") /\ m[0, 0]

-----------------------------------------------------------------------------
(* sub__topic_tokenise: the levels between the slashes, and an empty one in *)
(* front when the string does not begin with "$".                           *)
Levels(str) ==
  LET ends  == {i \in 1..(Len(str) + 1) : i > Len(str) \/ str[i] = "/"}
      end(k) == IF k = 0 THEN 0 ELSE CHOOSE e \in ends : Cardinality({i \in ends : i <= e}) = k
  IN  [k \in 1..Cardinality(ends) |-> SubSeq(str, end(k - 1) + 1, end(k) - 1)]

Tokens(str) == IF str[1] = "$" THEN Levels(str) ELSE <<<<>>>> \o Levels(str)

(* What mqtt(7) means by a match: "+" is one level, "#" all remaining ones  *)
(* and the level above them, and neither stands for "$" at the beginning.   *)
Plus == <<"+">>
Hash == <<"#">>

Matches(filter, topic) ==
  LET f == Levels(filter)
      t == Levels(topic)
      n == IF f[Len(f)] = Hash THEN Len(f) - 1 ELSE Len(f)
  IN  /\ IF n < Len(f) THEN Len(t) >= n ELSE Len(t) = n
      /\ \A i \in 1..n : f[i] \in {Plus, t[i]}
      /\ (filter[1] = "$") = (topic[1] = "$")
=============================================================================
