----------------------------- MODULE MCSubTree ------------------------------
(* SubTree on a few strings.  Clients and contexts are interchangeable.     *)
EXTENDS SubTree, TLC

(* Two siblings, a filter below another, "#" below an exact level and below *)
(* "+".  No topic ends at the level above a "#" that has a "+" before it.   *)
MCTopics  == {<<"a", "/", "b">>, <<"a", "/", "c">>, <<"$", "S">>}
MCFilters == {<<"a", "/", "b">>, <<"a", "/", "b", "/", "#">>, <<"+", "/", "#">>, <<"#">>}

(* A topic that does.                                                       *)
AboveTopics  == {<<"a">>}
AboveFilters == {<<"+", "/", "#">>}

Symmetry  == Permutations(Clients) \cup Permutations(Contexts)

(* topic_matches_sub against the definition of mqtt(7), on every valid      *)
(* subscription and every topic of up to four characters.                   *)
Strings == UNION {[1..n -> {"a", "/", "+", "#", "$"}] : n \in 1..4}

ASSUME MatcherIsCorrect ==
  \A f \in {f \in Strings : sub_topic_check(f)}, t \in {t \in Strings : pub_topic_check(t)} :
    topic_matches_sub(f, t) = Matches(f, t)
=============================================================================
