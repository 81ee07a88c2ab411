------------------------------- MODULE Restart ------------------------------
(***************************************************************************)
(* The broker with its persistence (src/src/persist.c): the file it writes *)
(* now and then and when it is shut down, and what it is after it was      *)
(* started again, from a shutdown or a crash.                              *)
(*                                                                         *)
(* The file is a sequence of chunks, written and read in one order: the    *)
(* configuration, the stored messages, each durable client with its        *)
(* messages, then the subscriptions and retained messages in the order of  *)
(* their tree.  Here it is a record of what the chunks of each kind say.   *)
(* $SYS, which is left out of it, has no messages in this model.           *)
(***************************************************************************)
EXTENDS Broker

CONSTANTS
  WriteErrors,   \* whether a write to the file may fail
  MaxSaves,      \* bound: saves while the broker runs
  MaxStops       \* bound: shutdowns and crashes

ASSUME RestartAssumption ==
  WriteErrors \in BOOLEAN /\ MaxSaves \in Nat /\ MaxStops \in Nat

VARIABLES
  file,      \* the database in persistence_filepath
  stopping,  \* whether the main loop has ended
  saved,     \* the durable sessions as they were when it was written
  faults     \* how many saves, shutdowns and crashes there were

rvars == <<vars, file, stopping, saved, faults>>

(* persist__client_write goes through the contexts that have an id.         *)
Durable == {c \in Clients : conn[c] # "none" /\ ~clean[c]}

NoFile == [last_db_id |-> 0, stored |-> {}, clients |-> <<>>, retained |-> {}]

(* Mutant: only the messages in flight are written.                         *)
ClientChunks_NoQueue(cq, qos) ==
  [last_mid |-> cq.last_mid, msgs |-> cq.inflight, leaf |-> qos]

(* The chunks of one client: last_mid, both lists, and its subscription.    *)
ClientChunks(cq, qos) ==
  [last_mid |-> cq.last_mid, msgs |-> cq.inflight \o cq.queued, leaf |-> qos]

(* persist__backup.                                                         *)
Backup ==
  [last_db_id |-> last_db_id,
   stored     |-> DOMAIN msg_store,
   clients    |-> [c \in Durable |-> ClientChunks(q[c], leaf[c])],
   retained   |-> retained]

(* What persist__backup leaves when a write fails.  It looks at the result  *)
(* of persist__message_store_write only and keeps the old file then; when   *)
(* the write of a client, of a message or of the tree fails, it ends the    *)
(* file there and puts it in the place of the old one.  The file is cut     *)
(* between two chunks: one cut in the middle of a chunk makes               *)
(* persist__restore fail, and the broker does not start from it.            *)
CutBackup(f, g) ==
  \/ \E D \in SUBSET DOMAIN f.clients : \E c \in D : \E n \in 0..Len(f.clients[c].msgs) :
       g = [f EXCEPT !.retained = {},
              !.clients = [d \in D |->
                [f.clients[d] EXCEPT !.leaf = NoLeaf,
                                     !.msgs = IF d = c THEN SubSeq(@, 1, n) ELSE @]]]
  \/ \E L \in SUBSET DOMAIN f.clients :
       g = [f EXCEPT !.retained = {},
              !.clients = [d \in DOMAIN f.clients |->
                [f.clients[d] EXCEPT !.leaf = IF d \in L THEN @ ELSE NoLeaf]]]

(* persist__client_messages_write reads the topic of every message: NULL,   *)
(* the topic of one that was denied, ends the process.                      *)
Survives == \A c \in Durable : \A i \in DOMAIN Messages(c) : Messages(c)[i].store.topic

-----------------------------------------------------------------------------
(* persist__restore.                                                        *)

(* persist__client_msg_restore chooses the list by the state, and does not  *)
(* adjust the counters of the context.                                      *)
Restored(chunks) ==
  LET s  == chunks.msgs
      qd == {i \in DOMAIN s : s[i].state = "queued"}
  IN  [inflight |-> Keep(s, DOMAIN s \ qd), queued |-> Keep(s, qd),
       tally |-> NoTally, last_mid |-> chunks.last_mid]

(* Mutant: a retained message is not counted as a reference.                *)
RefsIn_NoRetained(f, id) ==
  Cardinality({x \in UNION {{c} \X DOMAIN f.clients[c].msgs : c \in DOMAIN f.clients} :
                 f.clients[x[1]].msgs[x[2]].store.id = id})

(* The count of a message: one for each chunk that refers to it.            *)
RefsIn(f, id) ==
  Cardinality({x \in UNION {{c} \X DOMAIN f.clients[c].msgs : c \in DOMAIN f.clients} :
                 f.clients[x[1]].msgs[x[2]].store.id = id})
  + IF \E r \in f.retained : r.id = id THEN 1 ELSE 0

(* Everything that is not in the file is as in a new broker.  The clients   *)
(* find their connections closed.                                           *)
Start(f) ==
  /\ q' = [c \in Clients |-> IF c \in DOMAIN f.clients THEN Restored(f.clients[c]) ELSE EmptyQueue]
  /\ conn' = [c \in Clients |-> IF c \in DOMAIN f.clients THEN "offline" ELSE "none"]
  /\ clean' = [c \in Clients |-> c \notin DOMAIN f.clients]
  /\ leaf' = [c \in Clients |-> IF c \in DOMAIN f.clients THEN f.clients[c].leaf ELSE NoLeaf]
  /\ will' = [c \in Clients |-> FALSE]
  /\ msg_store' = [id \in f.stored |-> RefsIn(f, id)]
  /\ last_db_id' = f.last_db_id /\ retained' = f.retained /\ disused' = <<>>
  /\ served' = {} /\ phase' = "poll"
  /\ UNCHANGED <<wire, client, budget, history>>

-----------------------------------------------------------------------------
(* The durable sessions, as the lists and subscriptions of their clients.   *)
Sessions(D, cq, lf) ==
  [c \in D |-> [inflight |-> cq[c].inflight, queued |-> cq[c].queued,
                last_mid |-> cq[c].last_mid, leaf |-> lf[c]]]

RInit == /\ Init /\ file = NoFile /\ stopping = FALSE /\ saved = <<>>
         /\ faults = [saves |-> 0, shutdowns |-> 0, crashes |-> 0]

Running == ~stopping /\ Next /\ UNCHANGED <<file, stopping, saved, faults>>

(* The process ends before it could save, and is started again.             *)
Stopped ==
  /\ Start(file) /\ stopping' = FALSE /\ UNCHANGED <<file, saved>>
  /\ faults' = [faults EXCEPT !.crashes = @ + 1]

(* The save at the end of an iteration, by its interval or by a signal.     *)
Save ==
  /\ ~stopping /\ phase = "poll" /\ faults.saves < MaxSaves
  /\ IF Survives
     THEN /\ \/ file' = Backup
             \/ WriteErrors /\ CutBackup(Backup, file')
          /\ saved' = Sessions(Durable, q, leaf)
          /\ faults' = [faults EXCEPT !.saves = @ + 1]
          /\ UNCHANGED <<vars, stopping>>
     ELSE Stopped

(* A signal ends the main loop.  Then main sends the will of every client,  *)
(* of one after the other, and saves.                                       *)
MayStop == phase = "poll" /\ (stopping \/ faults.shutdowns + faults.crashes < MaxStops)

LastWill(c) ==
  /\ MayStop /\ will[c]
  /\ Become(SendWill(World, c, {}))
  /\ will' = [will EXCEPT ![c] = FALSE] /\ stopping' = TRUE
  /\ UNCHANGED <<conn, clean, leaf, served, phase, wire, client, budget, history, file, saved, faults>>

Shutdown ==
  /\ MayStop /\ \A c \in Clients : ~will[c]
  /\ IF Survives
     THEN /\ file' = Backup /\ Start(file') /\ stopping' = FALSE
          /\ saved' = Sessions(Durable, q, leaf)
          /\ faults' = [faults EXCEPT !.shutdowns = @ + 1]
     ELSE Stopped

(* The process or the machine stops at any moment.                          *)
Crash == faults.shutdowns + faults.crashes < MaxStops /\ Stopped

RNext == Running \/ Save \/ Shutdown \/ Crash \/ \E c \in Clients : LastWill(c)

RSpec == RInit /\ [][RNext]_rvars
-----------------------------------------------------------------------------
(* A broker that starts again has the durable sessions as they were at the  *)
(* last save, or at the shutdown: the messages in their lists, in order,    *)
(* the subscriptions and the last identifiers.                              *)
Restarted == faults'.shutdowns # faults.shutdowns \/ faults'.crashes # faults.crashes

RestoredIsSaved ==
  [][Restarted => Durable' = DOMAIN saved' /\ Sessions(Durable', q', leaf') = saved']_rvars

(* QoS 2 stays exactly once over shutdowns: in the middle of a handshake    *)
(* with the publisher and of one with the subscriber.                       *)
OnceOverShutdowns ==
  faults.crashes = 0 => RoutedOnce /\ CompletedIsRouted /\ DeliveredOnce
=============================================================================
