---------------------------- MODULE SnapshotSync ----------------------------
(***************************************************************************)
(* Snapshot and stream together: the dispatcher, a server that serves its  *)
(* snapshot requests while it keeps publishing, and the books the pipeline *)
(* commands build. It answers the question the dispatcher alone cannot: is *)
(* the book of a completed load the exchange's book?                       *)
(*                                                                         *)
(* The server is external. Update s is the s-th it publishes; a snapshot   *)
(* captured at S consists of Pieces entries and reflects the updates up to *)
(* S; its closing message carries S, its entries no number. The connection *)
(* is first-in first-out and the dispatcher the only reader of these       *)
(* messages, so a message can be handed over when it is sent: delaying it  *)
(* only delays the dispatcher, which requests no sooner. Three flags let   *)
(* the server do what the rest of the module assumes it does not.          *)
(***************************************************************************)
EXTENDS Dispatcher

CONSTANTS
  Pieces,       (* the number of entries in a full snapshot                 *)
  ColdLag,      (* a cold snapshot may be captured before its first entry   *)
  EndAnyTime,   (* a 161 may be sent while another instrument loads too     *)
  LoseAnyTime   (* updates may also be lost while a snapshot is under way   *)

ASSUME SyncAssumption ==
  /\ Pieces \in Nat \ {0}
  /\ {None} \cup [at : Seqs, piece : 1 .. Pieces] \subseteq Bodies
  /\ {ColdLag, EndAnyTime, LoseAnyTime} \subseteq BOOLEAN
  /\ MaxEvents # 0 /\ MinStreak # 0
  /\ \A U \in SUBSET Seqs : None # U

VARIABLES
  owner,  (* owner[s]: the instrument update s is about                     *)
  seen,   (* the number of the last update handed to the dispatcher         *)
  asked,  (* instruments whose snapshot request reached the server          *)
  job,    (* each instrument's snapshot under way: when captured, what left *)
  book    (* each pipeline's book: entries, updates, completion             *)

server == <<owner, seen, asked, job>>
vars == <<dvars, server, book>>

Latest == Len(owner)
Idle   == [at |-> None, left |-> 0]
Update(i, s)   == [tid |-> 160, sym |-> i, seq |-> s, sentinel |-> FALSE, n |-> 1, body |-> None]
Entry(i, S, p) == [tid |-> 116, sym |-> i, seq |-> None, sentinel |-> FALSE, n |-> 1,
                   body |-> [at |-> S, piece |-> p]]
Closing(i, S)  == [tid |-> 116, sym |-> i, seq |-> S, sentinel |-> TRUE, n |-> 0, body |-> None]
EndMark(S)     == [tid |-> 161, sym |-> Foreign, seq |-> S, sentinel |-> FALSE, n |-> 0, body |-> None]

EmptyBook == [pieces |-> {}, updates |-> <<>>, done |-> FALSE]

(* The session subscribes and asks for every snapshot before it starts its  *)
(* tasks.                                                                   *)
Init ==
  /\ DInit
  /\ owner = <<>> /\ seen = 0
  /\ asked = Instruments
  /\ job = [i \in Instruments |-> Idle]
  /\ book = [i \in Instruments |-> EmptyBook]

-----------------------------------------------------------------------------
(* The server. *)

Publish(i) ==
  /\ Latest < MaxSeq
  /\ owner' = Append(owner, i)
  /\ seen' = Latest + 1
  /\ Receive(Update(i, Latest + 1))
  /\ UNCHANGED <<asked, job, book>>

(* A lost update is one the detector can see: it is armed and no snapshot   *)
(* is asked for or under way.                                               *)
Detectable ==
  /\ pc = "recv" /\ streak >= MinStreak /\ LoadingSet = {}
  /\ asked = {} /\ wsq = <<>> /\ \A i \in Instruments : job[i] = Idle

Lose(i) ==
  /\ Latest < MaxSeq
  /\ Detectable \/ LoseAnyTime
  /\ owner' = Append(owner, i)
  /\ UNCHANGED <<dvars, seen, asked, job, book>>

WriterTakes ==
  /\ wsq # <<>> /\ Head(wsq) \notin asked
  /\ asked' = asked \cup {Head(wsq)}
  /\ wsq' = Tail(wsq)
  /\ UNCHANGED <<tracker, loading, pc, serving, cmdq, rxOpen, wsOpen, sent, owner, seen, job, book>>

(* A snapshot is captured; the first entry of a cold one leaves with it.    *)
Capture(i) ==
  /\ i \in asked /\ job[i] = Idle
  /\ ~Streams(i) \/ ColdLag
  /\ asked' = asked \ {i}
  /\ job' = [job EXCEPT ![i] = [at |-> Latest, left |-> Pieces]]
  /\ UNCHANGED <<dvars, owner, seen, book>>

CaptureAndSend(i) ==
  /\ i \in asked /\ job[i] = Idle
  /\ asked' = asked \ {i}
  /\ job' = [job EXCEPT ![i] = [at |-> Latest, left |-> Pieces - 1]]
  /\ Receive(Entry(i, Latest, Pieces))
  /\ UNCHANGED <<owner, seen, book>>

SendEntry(i) ==
  /\ job[i].left > 0
  /\ job' = [job EXCEPT ![i].left = @ - 1]
  /\ Receive(Entry(i, job[i].at, job[i].left))
  /\ UNCHANGED <<owner, seen, asked, book>>

SendClosing(i) ==
  /\ job[i].at # None /\ job[i].left = 0
  /\ job' = [job EXCEPT ![i] = Idle]
  /\ \/ Receive(Closing(i, job[i].at))
     \/ /\ LoadingSet = {i} \/ EndAnyTime
        /\ Receive(EndMark(job[i].at))
  /\ UNCHANGED <<owner, seen, asked, book>>

Serve(i) == Capture(i) \/ CaptureAndSend(i) \/ SendEntry(i) \/ SendClosing(i)

-----------------------------------------------------------------------------
(* The pipelines, as far as the book is concerned. *)

Applied(b, c) ==
  IF c.type = "ClearBook" THEN EmptyBook
  ELSE IF c.type = "SnapshotComplete" THEN [b EXCEPT !.done = TRUE]
  ELSE IF c.of.tid = 116 THEN [b EXCEPT !.pieces = @ \cup {c.of.body}]
  ELSE [b EXCEPT !.updates = Append(@, c.of.seq)]

PipelineTakes(i) ==
  /\ cmdq[i] # <<>>
  /\ book' = [book EXCEPT ![i] = Applied(@, Head(cmdq[i]))]
  /\ cmdq' = [cmdq EXCEPT ![i] = Tail(@)]
  /\ UNCHANGED <<tracker, loading, pc, serving, wsq, rxOpen, wsOpen, sent, server>>

Dispatch == Proceed /\ UNCHANGED <<server, book>>

(* The bound on the feed is reached and all is served. *)
Quiet ==
  /\ Latest = MaxSeq /\ pc = "recv" /\ asked = {} /\ wsq = <<>>
  /\ \A i \in Instruments : cmdq[i] = <<>> /\ job[i] = Idle
  /\ UNCHANGED vars

Next ==
  \/ \E i \in Instruments : Publish(i) \/ Lose(i) \/ Serve(i) \/ PipelineTakes(i)
  \/ WriterTakes \/ Dispatch \/ Quiet

Spec == Init /\ [][Next]_vars

(* The client's tasks run when they can. The server serves a request it has *)
(* the chance to serve again and again, whatever else it sends.             *)
Fairness ==
  /\ WF_vars(Dispatch)
  /\ WF_vars(WriterTakes)
  /\ \A i \in Instruments : WF_vars(PipelineTakes(i)) /\ SF_vars(Serve(i))

FairSpec == Spec /\ Fairness

-----------------------------------------------------------------------------
(* The updates of instrument i among those numbered lo .. hi. *)
Own(i, lo, hi) == {s \in lo .. hi : owner[s] = i}

InOrder(q) == \A j, k \in 1 .. Len(q) : j < k => q[j] < q[k]

(* q is the numbers of U, each once, in their order. *)
Lists(q, U) == InOrder(q) /\ {q[k] : k \in 1 .. Len(q)} = U

FullSnapshot(S) == {[at |-> S, piece |-> p] : p \in 1 .. Pieces}

(* A pipeline that was told its snapshot is complete holds every entry of   *)
(* one snapshot and of no other (dispatcher.rs:69-71).                      *)
CompletionMeansLoaded ==
  \A i \in Instruments :
    book[i].done => \E S \in Seqs : book[i].pieces = FullSnapshot(S)

(* When the dispatcher is idle and the pipeline has caught up, the book of  *)
(* a streaming instrument is that of the exchange: a full snapshot and, on  *)
(* top of it, exactly the updates it does not contain, in order, up to the  *)
(* last one that arrived (dispatcher.rs:18-28).                             *)
BookIsCurrent ==
  \A i \in Instruments :
    book[i].done /\ cmdq[i] = <<>> /\ Streams(i) /\ pc = "recv" =>
      \E S \in Seqs :
        /\ book[i].pieces = FullSnapshot(S)
        /\ Lists(book[i].updates, Own(i, S + 1, seen))

(* A gap never leaves an instrument without a book: every load ends with a  *)
(* completed one, and every book is completed at the start.                 *)
EveryLoadCompletes == \A i \in Instruments : []<>(book[i].done)

(* The updates a book reflects. One that got them out of order reflects     *)
(* nothing the exchange ever published.                                     *)
Base(i) == (CHOOSE e \in book[i].pieces : TRUE).at
Reflects(i) ==
  IF ~book[i].done THEN None
  ELSE IF ~InOrder(book[i].updates) THEN {None}
  ELSE Own(i, 1, Base(i)) \cup {book[i].updates[k] : k \in 1 .. Len(book[i].updates)}

(* The client implements a book that is stale or a prefix of the exchange's *)
(* updates: through gaps, reloads and replays no completed book has a hole. *)
Follower == INSTANCE BookFollower WITH
  Updates   <- Seqs,
  Stale     <- None,
  published <- [i \in Instruments |-> Own(i, 1, Latest)],
  view      <- [i \in Instruments |-> Reflects(i)]

FollowsExchange == Follower!ASpec
=============================================================================
