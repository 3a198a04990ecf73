------------------------------ MODULE PoolProofs ------------------------------
(***************************************************************************)
(* Proofs about module Pool, for any number of connections, nonces and     *)
(* tip changes.                                                            *)
(*                                                                         *)
(* CreditedOnce and OneBlockPerJob are about what a share evaluated under  *)
(* no lock may find once the node is locked.  They rest on one fact about  *)
(* each credited share: its nonce is still in its job's duplicate set, or  *)
(* the tip has left the job's parent, and for a block it is the latter.    *)
(* Jobs only grow in number and in seen nonces, and the tip only advances, *)
(* so the fact is never lost.                                              *)
(*                                                                         *)
(* RecordsSound is about the bounded tables.  A session id has one holder, *)
(* a thread that is connected has its record and its label, and threads    *)
(* with an id are at most as many as connections, so register_session and  *)
(* pruning find a record that nobody needs; each share adds one to every   *)
(* tally it belongs to, which keeps the sums nested.                       *)
(***************************************************************************)
EXTENDS Pool, FiniteSums, SequenceTheorems, TLAPS

Jobs == [previous_block : Nat, seen : SUBSET Nonces]

(* The points of a session at which it is about a submitted share.         *)
HasShare == {"rotate", "before", "process", "submit", "rotateStale",
             "rotateBlock", "reject", "answer"}

(* A thread's share names an installed job; it is called stale only when   *)
(* the job is behind: behind the tip before the rotation, behind the       *)
(* current job after it.                                                   *)
ThreadOk(t, js, tip) ==
    /\ t.pc \in HasShare => t.job \in 1..Len(js)
    /\ t.pc \in {"submit", "rotateBlock"} => ~t.stale
    /\ t.pc = "submit" => t.nonce \in ShareNonces
    /\ t.pc = "rotateStale" => js[t.job].previous_block < tip
    /\ t.pc \in {"reject", "answer"} /\ t.stale => t.job < Len(js)

(* A credited nonce is remembered, or its job can be credited no more.     *)
CreditOk(x, js, tip) ==
    /\ x[1] \in 1..Len(js)
    /\ \/ x[2] \in js[x[1]].seen /\ x[2] \notin BlockNonces
       \/ js[x[1]].previous_block < tip

JobsOk(js, tip) ==
    /\ js \in Seq(Jobs) /\ Len(js) >= 1
    /\ \A i \in 1..Len(js) : js[i].previous_block <= tip

(* ks is js after some steps: no job is dropped, moved or forgets a nonce. *)
Extends(js, ks) ==
    /\ Len(js) <= Len(ks)
    /\ \A i \in 1..Len(js) : /\ ks[i].previous_block = js[i].previous_block
                             /\ js[i].seen \subseteq ks[i].seen

JobsInv == node_tip \in Nat /\ JobsOk(jobs, node_tip)

ThreadsInv ==
    /\ next_session_id \in 1..(MaxSessions + 1)
    /\ th \in [Conns -> Threads]
    /\ \A c \in Conns : ThreadOk(th[c], jobs, node_tip)

CreditsInv ==
    /\ totals \in Tallies /\ totals.blocks <= node_tip
    /\ IsFiniteSet(credited) /\ credited \subseteq Nat \X Nonces
    /\ totals.accepted = Cardinality(credited)
    /\ \A x \in credited : CreditOk(x, jobs, node_tip)
    /\ \A x, y \in credited :
          x[1] = y[1] /\ x[2] \in BlockNonces /\ y[2] \in BlockNonces => x = y

Inv == JobsInv /\ ThreadsInv /\ CreditsInv

-----------------------------------------------------------------------------
(* Jobs and the tip.                                                       *)

(* Jobs that do not change extend themselves.                              *)
LEMMA ExtendsSelf ==
  ASSUME NEW js \in Seq(Jobs)
  PROVE  Extends(js, js)
  BY DEF Extends

(* rotate_if_tip_changed installs a job on the tip and keeps the others.   *)
LEMMA RotateExtends ==
  ASSUME JobsInv, RotateIfTipChanged
  PROVE  /\ JobsOk(jobs', node_tip) /\ Extends(jobs, jobs')
         /\ jobs'[Len(jobs')].previous_block = node_tip
<1>1. jobs \in Seq(Jobs) /\ Len(jobs) \in Nat \ {0} /\ node_tip \in Nat
  BY DEF JobsInv, JobsOk
<1>2. CASE jobs[current].previous_block = node_tip
  BY <1>1, <1>2 DEF RotateIfTipChanged, JobsInv, Extends, current
<1>3. CASE jobs[current].previous_block # node_tip
  <2> DEFINE j == [previous_block |-> node_tip, seen |-> {}]
  <2>1. j \in Jobs /\ j.previous_block = node_tip
    BY <1>1 DEF Jobs
  <2>2. jobs' = Append(jobs, j)
    BY <1>3 DEF RotateIfTipChanged
  <2> HIDE DEF j
  <2>3. /\ jobs' \in Seq(Jobs) /\ Len(jobs') = Len(jobs) + 1
        /\ \A i \in 1..Len(jobs) : jobs'[i] = jobs[i]
        /\ jobs'[Len(jobs) + 1] = j
    BY <1>1, <2>1, <2>2
  <2>4. \A i \in 1..Len(jobs') : jobs'[i].previous_block <= node_tip
    <3> SUFFICES ASSUME NEW i \in 1..Len(jobs')
                 PROVE  jobs'[i].previous_block <= node_tip
      OBVIOUS
    <3>1. CASE i \in 1..Len(jobs)
      BY <2>3, <3>1 DEF JobsInv, JobsOk
    <3>2. CASE i = Len(jobs) + 1
      BY <1>1, <2>1, <2>3, <3>2
    <3> QED
      BY <1>1, <2>3, <3>1, <3>2
  <2> QED
    BY <1>1, <2>1, <2>3, <2>4 DEF JobsOk, Extends
<1> QED
  BY <1>2, <1>3

(* reserve_valid_share adds a nonce to one job.                            *)
LEMMA ReserveExtends ==
  ASSUME JobsInv, NEW j \in 1..Len(jobs), NEW n \in Nonces,
         jobs' = [jobs EXCEPT ![j].seen = Reserve(@, n)]
  PROVE  JobsOk(jobs', node_tip) /\ Extends(jobs, jobs')
<1>1. jobs \in Seq(Jobs) /\ jobs[j] \in Jobs
  BY DEF JobsInv, JobsOk
<1>2. jobs[j].seen \subseteq Reserve(jobs[j].seen, n) /\ Reserve(jobs[j].seen, n) \subseteq Nonces
  BY <1>1 DEF Reserve, Jobs
<1> DEFINE r == [jobs[j] EXCEPT !.seen = Reserve(jobs[j].seen, n)]
<1>3. /\ r \in Jobs /\ r.previous_block = jobs[j].previous_block
      /\ r.seen = Reserve(jobs[j].seen, n)
  <2> HIDE DEF Reserve
  <2> QED
    BY <1>1, <1>2 DEF Jobs
<1>4. jobs' = [jobs EXCEPT ![j] = r]
  OBVIOUS
<1> HIDE DEF r
<1>5. /\ jobs' \in Seq(Jobs) /\ Len(jobs') = Len(jobs) /\ jobs'[j] = r
      /\ \A i \in 1..Len(jobs) : i # j => jobs'[i] = jobs[i]
  BY <1>1, <1>3, <1>4
<1> QED
  BY <1>2, <1>3, <1>5 DEF JobsInv, JobsOk, Extends

-----------------------------------------------------------------------------
(* What is true of a thread stays true while jobs and the tip move on.     *)
LEMMA ThreadOkStable ==
  ASSUME NEW t \in Threads, NEW js \in Seq(Jobs), NEW ks \in Seq(Jobs),
         NEW tip \in Nat, NEW tip2 \in Nat, tip <= tip2, Extends(js, ks),
         ThreadOk(t, js, tip)
  PROVE  ThreadOk(t, ks, tip2)
<1>1. Len(js) \in Nat /\ Len(ks) \in Nat /\ Len(js) <= Len(ks) /\ t.job \in Nat
  BY DEF Extends, Threads
<1>2. t.pc \in HasShare => t.job \in 1..Len(ks)
  BY <1>1 DEF ThreadOk
<1>3. t.pc = "rotateStale" => ks[t.job].previous_block < tip2
  <2> SUFFICES ASSUME t.pc = "rotateStale" PROVE ks[t.job].previous_block < tip2
    OBVIOUS
  <2>1. t.job \in 1..Len(js) /\ js[t.job].previous_block < tip
    BY DEF ThreadOk, HasShare
  <2>2. js[t.job] \in Jobs /\ ks[t.job].previous_block = js[t.job].previous_block
    BY <2>1 DEF Extends
  <2> QED
    BY <2>1, <2>2 DEF Jobs
<1>4. t.pc \in {"reject", "answer"} /\ t.stale => t.job < Len(ks)
  BY <1>1 DEF ThreadOk
<1> QED
  BY <1>2, <1>3, <1>4 DEF ThreadOk

(* So does what is true of a credited share.                               *)
LEMMA CreditOkStable ==
  ASSUME NEW x \in Nat \X Nonces, NEW js \in Seq(Jobs), NEW ks \in Seq(Jobs),
         NEW tip \in Nat, NEW tip2 \in Nat, tip <= tip2, Extends(js, ks),
         CreditOk(x, js, tip)
  PROVE  CreditOk(x, ks, tip2)
<1>1. x[1] \in 1..Len(js) /\ js[x[1]] \in Jobs
  BY DEF CreditOk
<1>2. /\ ks[x[1]].previous_block = js[x[1]].previous_block
      /\ js[x[1]].seen \subseteq ks[x[1]].seen
  BY <1>1 DEF Extends
<1>3. x[1] \in 1..Len(ks)
  BY <1>1 DEF Extends
<1>4. js[x[1]].previous_block < tip => js[x[1]].previous_block < tip2
  BY <1>1 DEF Jobs
<1> QED
  BY <1>2, <1>3, <1>4 DEF CreditOk

(* A step of thread c that leaves it in a good place preserves ThreadsInv. *)
LEMMA ThreadUpdate ==
  ASSUME JobsInv, JobsInv', node_tip <= node_tip', Extends(jobs, jobs'), ThreadsInv,
         next_session_id' \in 1..(MaxSessions + 1),
         NEW c \in Conns, NEW t \in Threads, th' = [th EXCEPT ![c] = t],
         ThreadOk(t, jobs', node_tip')
  PROVE  ThreadsInv'
<1>1. th' \in [Conns -> Threads]
  BY DEF ThreadsInv
<1>2. ASSUME NEW d \in Conns PROVE ThreadOk(th'[d], jobs', node_tip')
  <2>1. CASE d = c
    BY <2>1 DEF ThreadsInv
  <2>2. CASE d # c
    <3>1. th'[d] = th[d] /\ th[d] \in Threads /\ ThreadOk(th[d], jobs, node_tip)
      BY <2>2 DEF ThreadsInv
    <3>2. ThreadOk(th[d], jobs', node_tip')
      BY <3>1, ThreadOkStable DEF JobsInv, JobsOk
    <3> QED
      BY <3>1, <3>2
  <2> QED
    BY <2>1, <2>2
<1> QED
  BY <1>1, <1>2 DEF ThreadsInv

(* A step without a credit keeps CreditsInv.                               *)
LEMMA NoCreditStep ==
  ASSUME JobsInv, JobsInv', node_tip <= node_tip', Extends(jobs, jobs'), CreditsInv,
         totals' \in Tallies, totals'.accepted = totals.accepted,
         totals'.blocks = totals.blocks, credited' = credited
  PROVE  CreditsInv'
<1>1. \A x \in credited : CreditOk(x, jobs', node_tip')
  BY CreditOkStable DEF CreditsInv, JobsInv, JobsOk
<1>2. totals'.blocks <= node_tip'
  BY DEF CreditsInv, JobsInv, Tallies
<1> QED
  BY <1>1, <1>2 DEF CreditsInv

-----------------------------------------------------------------------------
(* The steps of a session.                                                 *)

(* A free connection slot is a thread.                                     *)
LEMMA FreeTyped == Free \in Threads
  BY PoolAssumption DEF Free, Threads

(* Moving a thread to another place leaves the rest of it alone.           *)
LEMMA GotoTyped ==
  ASSUME NEW t \in Threads, NEW pc \in {"hello", "greet", "loop", "read", "before",
             "rotateStale", "reject", "answer", "rotateBlock"}
  PROVE  /\ [t EXCEPT !.pc = pc] \in Threads
         /\ [t EXCEPT !.pc = pc].pc = pc
         /\ [t EXCEPT !.pc = pc].job = t.job
         /\ [t EXCEPT !.pc = pc].stale = t.stale
  BY DEF Threads

(* A thread step that touches neither jobs, tip nor credits.               *)
LEMMA PlainStep ==
  ASSUME Inv, UNCHANGED <<node_tip, jobs, totals, credited>>,
         next_session_id' \in 1..(MaxSessions + 1),
         NEW c \in Conns, NEW t \in Threads, th' = [th EXCEPT ![c] = t],
         ThreadOk(t, jobs, node_tip)
  PROVE  Inv'
<1>1. JobsInv' /\ node_tip <= node_tip' /\ Extends(jobs, jobs')
  BY ExtendsSelf DEF Inv, JobsInv, JobsOk
<1>2. ThreadsInv'
  BY <1>1, ThreadUpdate DEF Inv
<1>3. CreditsInv'
  BY <1>1, NoCreditStep DEF Inv, CreditsInv
<1> QED
  BY <1>1, <1>2, <1>3 DEF Inv

(* A thread step that rotates the job and goes to a place named pc.        *)
LEMMA RotateStep ==
  ASSUME Inv, RotateIfTipChanged,
         UNCHANGED <<node_tip, totals, credited, next_session_id>>,
         NEW c \in Conns, NEW t \in Threads, th' = [th EXCEPT ![c] = t],
         ThreadOk(t, jobs', node_tip)
  PROVE  Inv'
<1>1. JobsInv' /\ node_tip <= node_tip' /\ Extends(jobs, jobs')
  BY RotateExtends DEF Inv, JobsInv
<1>2. ThreadsInv'
  BY <1>1, ThreadUpdate DEF Inv, ThreadsInv
<1>3. CreditsInv'
  BY <1>1, NoCreditStep DEF Inv, CreditsInv
<1> QED
  BY <1>1, <1>2, <1>3 DEF Inv

(* Where no share is in progress a thread is always in order.              *)
LEMMA IdleOk ==
  ASSUME NEW t, t.pc \notin HasShare, NEW js, NEW tip
  PROVE  ThreadOk(t, js, tip)
  BY DEF ThreadOk, HasShare

(* Connections, hello, registration and the guards.                        *)
LEMMA ConnectionInv ==
  ASSUME Inv, NEW c \in Conns,
         \/ AcceptConnection(c) \/ HelloRefused(c) \/ RegisterSession(c) \/ Greet(c)
         \/ DropSession(c) \/ ReleaseConnection(c) \/ \E p \in Payouts : Hello(c, p)
  PROVE  Inv'
<1>1. th[c] \in Threads /\ next_session_id \in 1..(MaxSessions + 1) /\ Len(jobs) \in Nat
  BY DEF Inv, ThreadsInv, JobsInv, JobsOk
<1>2. CASE AcceptConnection(c)
  <2> DEFINE t == [th[c] EXCEPT !.pc = "hello"]
  <2>1. t \in Threads /\ t.pc = "hello"
    BY <1>1, GotoTyped
  <2>2. th' = [th EXCEPT ![c] = t]
    BY <1>2 DEF AcceptConnection, Goto
  <2>3. UNCHANGED <<node_tip, jobs, totals, credited, next_session_id>>
    BY <1>2 DEF AcceptConnection, ledger
  <2> HIDE DEF t
  <2>4. ThreadOk(t, jobs, node_tip)
    BY <2>1, IdleOk DEF HasShare
  <2> QED
    BY <1>1, <2>1, <2>2, <2>3, <2>4, PlainStep
<1>3. CASE HelloRefused(c) \/ DropSession(c) \/ ReleaseConnection(c)
  <2>1. PICK t \in Threads : t.pc \in {"release", "free"} /\ th' = [th EXCEPT ![c] = t]
    BY <1>3, FreeTyped DEF HelloRefused, DropSession, ReleaseConnection, Free, Threads
  <2>2. UNCHANGED <<node_tip, jobs, totals, credited, next_session_id>>
    BY <1>3 DEF HelloRefused, DropSession, ReleaseConnection, ledger
  <2>3. ThreadOk(t, jobs, node_tip)
    BY <2>1, IdleOk DEF HasShare
  <2> QED
    BY <1>1, <2>1, <2>2, <2>3, PlainStep
<1>4. CASE RegisterSession(c)
  <2> DEFINE t == [th[c] EXCEPT !.pc = "greet"]
  <2>1. t \in Threads /\ t.pc = "greet"
    BY <1>1, GotoTyped
  <2>2. th' = [th EXCEPT ![c] = t]
    BY <1>4 DEF RegisterSession, Goto
  <2>3. UNCHANGED <<node_tip, jobs, totals, credited, next_session_id>>
    BY <1>4 DEF RegisterSession
  <2> HIDE DEF t
  <2>4. ThreadOk(t, jobs, node_tip)
    BY <2>1, IdleOk DEF HasShare
  <2> QED
    BY <1>1, <2>1, <2>2, <2>3, <2>4, PlainStep
<1>5. CASE Greet(c)
  <2> DEFINE t == [th[c] EXCEPT !.pc = "loop", !.known = current]
  <2>1. t \in Threads /\ t.pc = "loop"
    BY <1>1 DEF Threads, current
  <2>2. th' = [th EXCEPT ![c] = t]
    BY <1>5 DEF Greet
  <2>3. UNCHANGED <<node_tip, jobs, totals, credited, next_session_id>>
    BY <1>5 DEF Greet, ledger
  <2> HIDE DEF t
  <2>4. ThreadOk(t, jobs, node_tip)
    BY <2>1, IdleOk DEF HasShare
  <2> QED
    BY <1>1, <2>1, <2>2, <2>3, <2>4, PlainStep
<1>6. ASSUME NEW p \in Payouts, Hello(c, p) PROVE Inv'
  <2> DEFINE t == [Free EXCEPT !.pc = "register", !.session = next_session_id, !.payout = p]
  <2> MaxSessions \in Nat
    BY PoolAssumption
  <2>1. next_session_id \in 1..MaxSessions /\ next_session_id' = next_session_id + 1
    <3>1. next_session_id <= MaxSessions /\ next_session_id' = next_session_id + 1
      BY <1>6 DEF Hello
    <3> QED
      BY <1>1, <3>1
  <2>2. t \in Threads /\ t.pc = "register"
    <3>1. next_session_id \in 0..MaxSessions /\ p \in Payouts \cup {NoPayout}
      BY <2>1
    <3> QED
      BY <3>1, FreeTyped DEF Threads
  <2>3. th' = [th EXCEPT ![c] = t]
    BY <1>6 DEF Hello
  <2>4. UNCHANGED <<node_tip, jobs, totals, credited>>
    BY <1>6 DEF Hello, ledger
  <2>5. next_session_id' \in 1..(MaxSessions + 1)
    BY <2>1
  <2> HIDE DEF t
  <2>6. ThreadOk(t, jobs, node_tip)
    BY <2>2, IdleOk DEF HasShare
  <2> QED
    BY <2>2, <2>3, <2>4, <2>5, <2>6, PlainStep
<1> QED
  BY <1>2, <1>3, <1>4, <1>5, <1>6

(* What handle_connection leaves to the session guard is a thread.         *)
LEMMA UnwindTyped ==
  ASSUME NEW c \in Conns, th[c] \in Threads, Unwind(c)
  PROVE  \E t \in Threads : t.pc = "drop" /\ th' = [th EXCEPT ![c] = t]
<1> DEFINE t == [Free EXCEPT !.pc = "drop", !.session = th[c].session,
                             !.payout = th[c].payout]
<1>1. t \in Threads /\ t.pc = "drop"
  BY FreeTyped DEF Threads
<1>2. th' = [th EXCEPT ![c] = t]
  BY DEF Unwind
<1> QED
  BY <1>1, <1>2

(* A session that ends without a credit.                                   *)
LEMMA UnwindInv ==
  ASSUME Inv, NEW c \in Conns, Unwind(c),
         UNCHANGED <<node_tip, jobs, totals, credited, next_session_id>>
  PROVE  Inv'
<1>1. th[c] \in Threads /\ next_session_id \in 1..(MaxSessions + 1)
  BY DEF Inv, ThreadsInv
<1>2. PICK t \in Threads : t.pc = "drop" /\ th' = [th EXCEPT ![c] = t]
  BY <1>1, UnwindTyped
<1>3. ThreadOk(t, jobs, node_tip)
  BY <1>2, IdleOk DEF HasShare
<1> QED
  BY <1>1, <1>2, <1>3, PlainStep

(* The three rotations of a session: at the loop head, before a share is   *)
(* processed, and after a stale parent or an accepted block.               *)
LEMMA RotationInv ==
  ASSUME Inv, NEW c \in Conns, LoopTop(c) \/ RotateBefore(c) \/ RotateAfter(c)
  PROVE  Inv'
<1>1. th[c] \in Threads /\ ThreadOk(th[c], jobs, node_tip)
  BY DEF Inv, ThreadsInv
<1>2. RotateIfTipChanged /\ UNCHANGED <<node_tip, totals, credited, next_session_id>>
  BY DEF LoopTop, RotateBefore, RotateAfter, ledger
<1>3. /\ jobs \in Seq(Jobs) /\ jobs' \in Seq(Jobs) /\ node_tip \in Nat
      /\ Extends(jobs, jobs') /\ JobsOk(jobs', node_tip)
      /\ jobs'[Len(jobs')].previous_block = node_tip
  BY <1>2, RotateExtends DEF Inv, JobsInv, JobsOk
<1>4. ThreadOk(th[c], jobs', node_tip)
  BY <1>1, <1>3, ThreadOkStable
<1>5. ASSUME NEW pc \in {"read", "before", "reject", "answer"}, Goto(c, pc),
             ThreadOk([th[c] EXCEPT !.pc = pc], jobs', node_tip)
      PROVE  Inv'
  <2>1. [th[c] EXCEPT !.pc = pc] \in Threads
    BY <1>1, GotoTyped
  <2>2. th' = [th EXCEPT ![c] = [th[c] EXCEPT !.pc = pc]]
    BY <1>5 DEF Goto
  <2> QED
    BY <1>2, <1>5, <2>1, <2>2, RotateStep
<1>6. CASE LoopTop(c)
  <2>1. [th[c] EXCEPT !.pc = "read"].pc \notin HasShare
    BY <1>1, GotoTyped DEF HasShare
  <2>2. ThreadOk([th[c] EXCEPT !.pc = "read"], jobs', node_tip)
    BY <2>1, IdleOk
  <2> QED
    BY <1>5, <1>6, <2>2 DEF LoopTop
<1>7. CASE RotateBefore(c)
  <2>1. th[c].job \in 1..Len(jobs')
    BY <1>4, <1>7 DEF RotateBefore, ThreadOk, HasShare
  <2>2. ThreadOk([th[c] EXCEPT !.pc = "before"], jobs', node_tip)
    BY <1>1, <2>1, GotoTyped DEF ThreadOk
  <2> QED
    BY <1>5, <1>7, <2>2 DEF RotateBefore
<1>8. CASE RotateAfter(c)
  <2>1. th[c].job \in 1..Len(jobs')
    BY <1>4, <1>8 DEF RotateAfter, ThreadOk, HasShare
  <2>2. CASE th[c].pc = "rotateStale"
    <3>1. jobs'[th[c].job].previous_block < node_tip
      BY <1>4, <2>2 DEF ThreadOk
    <3>2. jobs'[th[c].job].previous_block \in Nat
      <4>1. jobs'[th[c].job] \in Jobs
        BY <1>3, <2>1
      <4> QED
        BY <4>1 DEF Jobs
    <3>3. th[c].job # Len(jobs')
      BY <1>3, <3>1, <3>2
    <3>4. th[c].job < Len(jobs')
      BY <1>3, <2>1, <3>3
    <3>5. ThreadOk([th[c] EXCEPT !.pc = "reject"], jobs', node_tip)
      BY <1>1, <2>1, <3>4, GotoTyped DEF ThreadOk
    <3> QED
      BY <1>5, <1>8, <2>2, <3>5 DEF RotateAfter
  <2>3. CASE th[c].pc = "rotateBlock"
    <3>1. ~th[c].stale
      BY <1>4, <2>3 DEF ThreadOk
    <3>2. ThreadOk([th[c] EXCEPT !.pc = "answer"], jobs', node_tip)
      BY <1>1, <2>1, <3>1, GotoTyped DEF ThreadOk
    <3> QED
      BY <1>5, <1>8, <2>3, <3>2 DEF RotateAfter
  <2> QED
    BY <1>8, <2>2, <2>3 DEF RotateAfter
<1> QED
  BY <1>6, <1>7, <1>8

(* The steps of a session between its rotations that move no credit.       *)
LEMMA MessageInv ==
  ASSUME Inv, NEW c \in Conns,
         \/ ReadBefore(c) \/ Process(c) \/ SubmitStale(c) \/ SubmitRefused(c)
         \/ Answer(c) \/ SessionFails(c) \/ SessionStops(c)
         \/ \E j \in 1..current, n \in Nonces : ReadShare(c, j, n)
  PROVE  Inv'
<1>1. /\ th[c] \in Threads /\ ThreadOk(th[c], jobs, node_tip)
      /\ next_session_id \in 1..(MaxSessions + 1)
  BY DEF Inv, ThreadsInv
<1>2. UNCHANGED <<node_tip, jobs, totals, credited, next_session_id>>
  BY DEF ReadBefore, Process, SubmitStale, SubmitRefused, Answer, SessionFails,
         SessionStops, ReadShare, ledger
<1>3. jobs \in Seq(Jobs) /\ Len(jobs) \in Nat /\ node_tip \in Nat
  BY DEF Inv, JobsInv, JobsOk
<1>4. ASSUME NEW t \in Threads, th' = [th EXCEPT ![c] = t], ThreadOk(t, jobs, node_tip)
      PROVE  Inv'
  BY <1>1, <1>2, <1>4, PlainStep
<1>5. CASE SessionFails(c) \/ SessionStops(c)
  BY <1>2, <1>5, UnwindInv DEF SessionFails, SessionStops
<1>6. ASSUME NEW j \in 1..current, NEW n \in Nonces, ReadShare(c, j, n) PROVE Inv'
  <2>1. CASE th[c].count = MaxMessages
    BY <1>2, <1>6, <2>1, UnwindInv DEF ReadShare
  <2>2. CASE th[c].count # MaxMessages
    <3> DEFINE v == th[c].count + 1
    <3> DEFINE t == [th[c] EXCEPT !.pc = "rotate", !.count = v, !.job = j, !.nonce = n]
    <3>1. v \in 0..MaxMessages
      <4>1. MaxMessages \in Nat /\ th[c].count \in 0..MaxMessages
        BY <1>1, PoolAssumption DEF Threads
      <4> QED
        BY <2>2, <4>1
    <3>2. th' = [th EXCEPT ![c] = t]
      BY <1>6, <2>2 DEF ReadShare
    <3> HIDE DEF v
    <3>3. t \in Threads /\ t.pc = "rotate" /\ t.job = j
      <4>1. j \in Nat /\ n \in Nonces \cup {NoPayout}
        BY <1>3 DEF current
      <4> QED
        BY <1>1, <3>1, <4>1 DEF Threads
    <3> HIDE DEF t
    <3>4. ThreadOk(t, jobs, node_tip)
      BY <3>3 DEF ThreadOk, current
    <3> QED
      BY <1>4, <3>2, <3>3, <3>4
  <2> QED
    BY <2>1, <2>2
<1>7. CASE ReadBefore(c)
  <2> DEFINE t == [th[c] EXCEPT !.pc = "process", !.before = current]
  <2>1. t \in Threads /\ t.pc = "process" /\ t.job = th[c].job
    BY <1>1, <1>3 DEF Threads, current
  <2>2. th' = [th EXCEPT ![c] = t]
    BY <1>7 DEF ReadBefore
  <2> HIDE DEF t
  <2>3. ThreadOk(t, jobs, node_tip)
    BY <1>1, <1>7, <2>1 DEF ReadBefore, ThreadOk, HasShare
  <2> QED
    BY <1>4, <2>1, <2>2, <2>3
<1>8. CASE Process(c)
  <2>1. th[c].job \in 1..Len(jobs)
    BY <1>1, <1>8 DEF Process, ThreadOk, HasShare
  <2>2. CASE th[c].job = current
    <3> DEFINE pc == IF th[c].nonce \in ShareNonces THEN "submit" ELSE "reject"
    <3> DEFINE t == [th[c] EXCEPT !.stale = FALSE, !.pc = pc]
    <3>1. /\ t \in Threads /\ t.pc \in {"submit", "reject"}
          /\ t.job = th[c].job /\ t.stale = FALSE /\ t.nonce = th[c].nonce
          /\ t.pc = "submit" => th[c].nonce \in ShareNonces
      BY <1>1 DEF Threads
    <3>2. th' = [th EXCEPT ![c] = t]
      BY <1>8, <2>2 DEF Process
    <3> HIDE DEF t
    <3>3. ThreadOk(t, jobs, node_tip)
      BY <2>1, <3>1 DEF ThreadOk
    <3> QED
      BY <1>4, <3>1, <3>2, <3>3
  <2>3. CASE th[c].job # current
    <3> DEFINE t == [th[c] EXCEPT !.stale = TRUE, !.pc = "reject"]
    <3>1. t \in Threads /\ t.pc = "reject" /\ t.job = th[c].job
      BY <1>1 DEF Threads
    <3>2. th' = [th EXCEPT ![c] = t]
      BY <1>8, <2>3 DEF Process
    <3>3. th[c].job < Len(jobs)
      BY <1>3, <2>1, <2>3 DEF current
    <3> HIDE DEF t
    <3>4. ThreadOk(t, jobs, node_tip)
      BY <2>1, <3>1, <3>3 DEF ThreadOk
    <3> QED
      BY <1>4, <3>1, <3>2, <3>4
  <2> QED
    BY <2>2, <2>3
<1>9. CASE SubmitStale(c)
  <2> DEFINE t == [th[c] EXCEPT !.pc = "rotateStale", !.stale = TRUE]
  <2>1. t \in Threads /\ t.pc = "rotateStale" /\ t.job = th[c].job
    BY <1>1 DEF Threads
  <2>2. th' = [th EXCEPT ![c] = t]
    BY <1>9 DEF SubmitStale
  <2>3. th[c].job \in 1..Len(jobs)
    BY <1>1, <1>9 DEF SubmitStale, ThreadOk, HasShare
  <2>4. jobs[th[c].job].previous_block < node_tip
    <3>1. jobs[th[c].job].previous_block # node_tip
      BY <1>9 DEF SubmitStale, SubmitsToTip
    <3>2. jobs[th[c].job] \in Jobs
      BY <1>3, <2>3
    <3>3. jobs[th[c].job].previous_block \in Nat
      BY <3>2 DEF Jobs
    <3>4. jobs[th[c].job].previous_block <= node_tip
      BY <2>3 DEF Inv, JobsInv, JobsOk
    <3> QED
      BY <1>3, <3>1, <3>3, <3>4
  <2> HIDE DEF t
  <2>5. ThreadOk(t, jobs, node_tip)
    BY <2>1, <2>3, <2>4 DEF ThreadOk
  <2> QED
    BY <1>4, <2>1, <2>2, <2>5
<1>10. CASE SubmitRefused(c)
  <2> DEFINE t == [th[c] EXCEPT !.pc = "reject"]
  <2>1. t \in Threads /\ t.pc = "reject" /\ t.job = th[c].job /\ t.stale = th[c].stale
    BY <1>1, GotoTyped
  <2>2. th' = [th EXCEPT ![c] = t]
    BY <1>10 DEF SubmitRefused, Goto
  <2>3. th[c].job \in 1..Len(jobs) /\ ~th[c].stale
    BY <1>1, <1>10 DEF SubmitRefused, SubmitsToTip, ThreadOk, HasShare
  <2> HIDE DEF t
  <2>4. ThreadOk(t, jobs, node_tip)
    BY <2>1, <2>3 DEF ThreadOk
  <2> QED
    BY <1>4, <2>1, <2>2, <2>4
<1>11. CASE Answer(c)
  <2> DEFINE k == IF Announces(c) THEN current ELSE th[c].known
  <2> DEFINE t == [th[c] EXCEPT !.pc = "loop", !.job = 0, !.nonce = NoPayout,
                                !.before = 0, !.stale = FALSE, !.known = k]
  <2>1. k \in Nat
    BY <1>1, <1>3 DEF Threads, current
  <2>2. th' = [th EXCEPT ![c] = t]
    BY <1>11 DEF Answer
  <2> HIDE DEF k
  <2>3. t \in Threads /\ t.pc = "loop"
    BY <1>1, <2>1 DEF Threads
  <2> HIDE DEF t
  <2>4. ThreadOk(t, jobs, node_tip)
    BY <2>3, IdleOk DEF HasShare
  <2> QED
    BY <1>4, <2>2, <2>3, <2>4
<1> QED
  BY <1>5, <1>6, <1>7, <1>8, <1>9, <1>10, <1>11

-----------------------------------------------------------------------------
(* The steps that credit.                                                  *)

(* rejected_result leaves the accepted count and the blocks alone.         *)
LEMMA RejectInv ==
  ASSUME Inv, NEW c \in Conns, Reject(c)
  PROVE  Inv'
<1>1. /\ th[c] \in Threads /\ ThreadOk(th[c], jobs, node_tip)
      /\ next_session_id \in 1..(MaxSessions + 1)
  BY DEF Inv, ThreadsInv
<1>2. UNCHANGED <<node_tip, jobs, credited, next_session_id>>
  BY DEF Reject
<1>3. JobsInv' /\ node_tip <= node_tip' /\ Extends(jobs, jobs')
  BY <1>2, ExtendsSelf DEF Inv, JobsInv, JobsOk
<1>4. /\ totals' \in Tallies /\ totals'.accepted = totals.accepted
      /\ totals'.blocks = totals.blocks
  <2>1. totals \in Tallies /\ totals' = Plus(totals, Rejected)
    BY DEF Reject, Credit, Inv, CreditsInv
  <2>2. Rejected.accepted = 0 /\ Rejected.rejected = 1 /\ Rejected.blocks = 0
    BY DEF Rejected, NoShares
  <2> QED
    BY <2>1, <2>2 DEF Plus, Tallies
<1>5. CreditsInv'
  BY <1>2, <1>3, <1>4, NoCreditStep DEF Inv
<1> DEFINE t == [th[c] EXCEPT !.pc = "answer"]
<1>6. t \in Threads /\ t.pc = "answer" /\ t.job = th[c].job /\ t.stale = th[c].stale
  BY <1>1, GotoTyped
<1>7. th' = [th EXCEPT ![c] = t] /\ th[c].pc = "reject"
  BY DEF Reject, Goto
<1> HIDE DEF t
<1>8. ThreadOk(t, jobs', node_tip')
  BY <1>1, <1>2, <1>6, <1>7 DEF ThreadOk, HasShare
<1>9. ThreadsInv'
  BY <1>1, <1>2, <1>3, <1>6, <1>7, <1>8, ThreadUpdate DEF Inv
<1> QED
  BY <1>3, <1>5, <1>9 DEF Inv

(* What a thread that reserves a nonce knows about it.                     *)
LEMMA ReservesFacts ==
  ASSUME Inv, NEW c \in Conns, Reserves(c)
  PROVE  /\ th[c].job \in 1..Len(jobs) /\ th[c].nonce \in Nonces
         /\ jobs[th[c].job].previous_block = node_tip
         /\ th[c].nonce \notin jobs[th[c].job].seen
         /\ ~th[c].stale
<1>1. th[c] \in Threads /\ ThreadOk(th[c], jobs, node_tip)
  BY DEF Inv, ThreadsInv
<1>2. th[c].nonce \in Nonces
  BY <1>1, PoolAssumption DEF Reserves, SubmitsToTip, ThreadOk
<1>3. th[c].job \in 1..Len(jobs) /\ ~th[c].stale
  BY <1>1 DEF Reserves, SubmitsToTip, ThreadOk, HasShare
<1> QED
  BY <1>2, <1>3 DEF Reserves, SubmitsToTip, Duplicate

(* A refused block ends the session; its nonce stays reserved.             *)
LEMMA BlockFailsInv ==
  ASSUME Inv, NEW c \in Conns, SubmitBlockFails(c)
  PROVE  Inv'
<1>1. th[c] \in Threads /\ next_session_id \in 1..(MaxSessions + 1)
  BY DEF Inv, ThreadsInv
<1>2. UNCHANGED <<node_tip, totals, credited, next_session_id>>
  BY DEF SubmitBlockFails, ledger
<1>3. JobsInv' /\ node_tip <= node_tip' /\ Extends(jobs, jobs')
  <2>1. Reserves(c)
    BY DEF SubmitBlockFails
  <2>2. th[c].job \in 1..Len(jobs) /\ th[c].nonce \in Nonces
    BY <2>1, ReservesFacts
  <2>3. JobsOk(jobs', node_tip) /\ Extends(jobs, jobs')
    BY <2>1, <2>2, ReserveExtends DEF Reserves, Inv
  <2> QED
    BY <1>2, <2>3 DEF Inv, JobsInv
<1>4. PICK t \in Threads : t.pc = "drop" /\ th' = [th EXCEPT ![c] = t]
  BY <1>1, UnwindTyped DEF SubmitBlockFails
<1>5. ThreadOk(t, jobs', node_tip')
  BY <1>4, IdleOk DEF HasShare
<1>6. ThreadsInv'
  BY <1>1, <1>2, <1>3, <1>4, <1>5, ThreadUpdate DEF Inv
<1>7. CreditsInv'
  BY <1>2, <1>3, NoCreditStep DEF Inv, CreditsInv
<1> QED
  BY <1>3, <1>6, <1>7 DEF Inv

(* An accepted share was never credited before, and a block is the first   *)
(* of its job: the tip is still the job's parent and the nonce not seen.   *)
LEMMA AcceptedInv ==
  ASSUME Inv, NEW c \in Conns, SubmitAccepted(c)
  PROVE  Inv'
<1> DEFINE j == th[c].job
           n == th[c].nonce
           x == <<j, n>>
<1>1. /\ th[c] \in Threads /\ next_session_id \in 1..(MaxSessions + 1)
      /\ jobs \in Seq(Jobs) /\ node_tip \in Nat /\ Len(jobs) \in Nat
  BY DEF Inv, ThreadsInv, JobsInv, JobsOk
<1>2. Reserves(c) /\ next_session_id' = next_session_id /\ credited' = credited \cup {x}
  BY DEF SubmitAccepted
<1>3. /\ j \in 1..Len(jobs) /\ n \in Nonces /\ jobs[j].previous_block = node_tip
      /\ n \notin jobs[j].seen /\ ~th[c].stale
  BY <1>2, ReservesFacts
<1>4. jobs' = [jobs EXCEPT ![j].seen = Reserve(@, n)]
  BY <1>2 DEF Reserves
<1>5. JobsOk(jobs', node_tip) /\ Extends(jobs, jobs')
  BY <1>3, <1>4, ReserveExtends DEF Inv
<1>6. /\ node_tip' \in Nat /\ node_tip <= node_tip'
      /\ n \in BlockNonces => node_tip' = node_tip + 1
      /\ n \notin BlockNonces => node_tip' = node_tip
  BY <1>1 DEF SubmitAccepted
<1>7. JobsInv'
  <2>1. jobs' \in Seq(Jobs) /\ Len(jobs') >= 1
    BY <1>5 DEF JobsOk
  <2>2. ASSUME NEW i \in 1..Len(jobs') PROVE jobs'[i].previous_block <= node_tip'
    <3>1. jobs'[i] \in Jobs
      BY <2>1, <2>2
    <3>2. jobs'[i].previous_block \in Nat
      BY <3>1 DEF Jobs
    <3>3. jobs'[i].previous_block <= node_tip
      BY <1>5, <2>2 DEF JobsOk
    <3> QED
      BY <1>1, <1>6, <3>2, <3>3
  <2> QED
    BY <1>6, <2>1, <2>2 DEF JobsInv, JobsOk
<1>8. ThreadsInv'
  <2> DEFINE pc == IF n \in BlockNonces THEN "rotateBlock" ELSE "answer"
  <2> DEFINE t == [th[c] EXCEPT !.pc = pc]
  <2>1. th' = [th EXCEPT ![c] = t]
    BY DEF SubmitAccepted, Goto
  <2>2. pc \in {"rotateBlock", "answer"}
    OBVIOUS
  <2> HIDE DEF pc
  <2>3. t \in Threads /\ t.pc = pc /\ t.job = j /\ t.stale = th[c].stale
    BY <1>1, <2>2 DEF Threads
  <2>4. j \in 1..Len(jobs')
    BY <1>1, <1>3, <1>5 DEF Extends, JobsOk
  <2> HIDE DEF t, j
  <2>5. ThreadOk(t, jobs', node_tip')
    BY <1>3, <2>2, <2>3, <2>4 DEF ThreadOk
  <2>6. next_session_id' \in 1..(MaxSessions + 1)
    BY <1>1, <1>2
  <2> QED
    BY <1>5, <1>6, <1>7, <2>1, <2>3, <2>5, <2>6, ThreadUpdate DEF Inv
<1>9. \A y \in credited : /\ y[1] = j /\ y[2] \in BlockNonces => FALSE
                          /\ y # x
  <2> SUFFICES ASSUME NEW y \in credited, y[1] = j
               PROVE  y[2] \notin BlockNonces /\ y[2] # n
    OBVIOUS
  <2>1. CreditOk(y, jobs, node_tip)
    BY DEF Inv, CreditsInv
  <2>2. ~(jobs[j].previous_block < node_tip)
    BY <1>1, <1>3
  <2> QED
    BY <1>3, <2>1, <2>2 DEF CreditOk
<1>10. CreditOk(x, jobs', node_tip')
  <2>1. jobs'[j].previous_block = node_tip /\ j \in 1..Len(jobs')
    BY <1>1, <1>3, <1>5 DEF Extends, JobsOk
  <2>2. CASE n \in BlockNonces
    BY <1>1, <1>6, <2>1, <2>2 DEF CreditOk
  <2>3. CASE n \notin BlockNonces
    <3>1. ~JobFull(c) /\ ~Duplicate(c)
      BY <1>2, <2>3 DEF Reserves
    <3>2. n \in Reserve(jobs[j].seen, n)
      BY <3>1 DEF Reserve, JobFull, Duplicate
    <3>3. jobs[j] \in Jobs
      BY <1>1, <1>3
    <3>4. jobs'[j].seen = Reserve(jobs[j].seen, n)
      BY <1>1, <1>3, <1>4, <3>3 DEF Jobs
    <3> QED
      BY <2>1, <2>3, <3>2, <3>4 DEF CreditOk
  <2> QED
    BY <2>2, <2>3
<1>11. /\ totals' \in Tallies /\ totals'.accepted = totals.accepted + 1
       /\ totals'.blocks <= node_tip'
  <2>1. totals \in Tallies /\ totals.blocks <= node_tip /\ totals' = Plus(totals, Accepted(n))
    BY DEF SubmitAccepted, Credit, Inv, CreditsInv
  <2>2. /\ totals.accepted \in Nat /\ totals.rejected \in Nat /\ totals.blocks \in Nat
    BY <2>1 DEF Tallies
  <2>3. /\ Accepted(n).accepted = 1 /\ Accepted(n).rejected = 0
        /\ n \in BlockNonces => Accepted(n).blocks = 1
        /\ n \notin BlockNonces => Accepted(n).blocks = 0
    BY DEF Accepted
  <2>4. /\ totals'.accepted = totals.accepted + Accepted(n).accepted
        /\ totals'.rejected = totals.rejected + Accepted(n).rejected
        /\ totals'.blocks = totals.blocks + Accepted(n).blocks
        /\ totals' = [accepted |-> totals'.accepted, rejected |-> totals'.rejected,
                      blocks |-> totals'.blocks]
    BY <2>1 DEF Plus
  <2>5. totals'.accepted \in Nat /\ totals'.rejected \in Nat /\ totals'.blocks \in Nat
    BY <2>2, <2>3, <2>4
  <2>6. totals' \in Tallies
    BY <2>4, <2>5 DEF Tallies
  <2>7. totals'.blocks <= node_tip'
    BY <1>1, <1>6, <2>1, <2>2, <2>3, <2>4
  <2> QED
    BY <2>3, <2>4, <2>6, <2>7
<1>12. CreditsInv'
  <2>1. /\ IsFiniteSet(credited) /\ credited \subseteq Nat \X Nonces
        /\ totals.accepted = Cardinality(credited) /\ x \notin credited
    BY <1>9 DEF Inv, CreditsInv
  <2>2. IsFiniteSet(credited') /\ Cardinality(credited') = Cardinality(credited) + 1
    BY <1>2, <2>1, FS_AddElement
  <2>3. x \in Nat \X Nonces
    BY <1>1, <1>3
  <2>4. \A y \in credited : CreditOk(y, jobs', node_tip')
    BY <1>1, <1>5, <1>6, <1>7, <2>1, CreditOkStable DEF Inv, CreditsInv, JobsInv, JobsOk
  <2>5. \A y \in credited' : CreditOk(y, jobs', node_tip')
    BY <1>2, <1>10, <2>4
  <2>6. x[1] = j /\ x[2] = n
    OBVIOUS
  <2> HIDE DEF x
  <2>7. \A y, z \in credited' :
          y[1] = z[1] /\ y[2] \in BlockNonces /\ z[2] \in BlockNonces => y = z
    BY <1>2, <1>9, <2>6 DEF Inv, CreditsInv
  <2>8. credited' \subseteq Nat \X Nonces
    BY <1>2, <2>1, <2>3
  <2> QED
    BY <1>11, <2>1, <2>2, <2>5, <2>7, <2>8 DEF CreditsInv
<1> QED
  BY <1>7, <1>8, <1>12 DEF Inv

-----------------------------------------------------------------------------
(* A step outside the threads: other blocks, the listener's rotation, the  *)
(* stop flag.                                                              *)
LEMMA OutsideInv ==
  ASSUME Inv, ListenerRotates \/ PeerBlock \/ StopServer \/ UNCHANGED vars
  PROVE  Inv'
<1>1. UNCHANGED <<th, totals, credited, next_session_id>>
  BY DEF ListenerRotates, PeerBlock, StopServer, vars, ledger
<1>2. node_tip' \in Nat /\ node_tip <= node_tip'
  BY DEF ListenerRotates, PeerBlock, StopServer, vars, Inv, JobsInv
<1>3. JobsInv' /\ Extends(jobs, jobs')
  <2>1. CASE ListenerRotates
    BY <2>1, RotateExtends DEF ListenerRotates, Inv, JobsInv
  <2>2. CASE PeerBlock \/ StopServer \/ UNCHANGED vars
    <3>1. jobs' = jobs /\ jobs \in Seq(Jobs) /\ node_tip \in Nat
      BY <2>2 DEF PeerBlock, StopServer, vars, Inv, JobsInv, JobsOk
    <3>2. ASSUME NEW i \in 1..Len(jobs) PROVE jobs[i].previous_block <= node_tip'
      <4>1. jobs[i] \in Jobs
        BY <3>1, <3>2
      <4>2. jobs[i].previous_block \in Nat
        BY <4>1 DEF Jobs
      <4>3. jobs[i].previous_block <= node_tip
        BY <3>2 DEF Inv, JobsInv, JobsOk
      <4> QED
        BY <1>2, <3>1, <4>2, <4>3
    <3> QED
      BY <1>2, <3>1, <3>2, ExtendsSelf DEF Inv, JobsInv, JobsOk
  <2> QED
    BY <2>1, <2>2
<1>4. ThreadsInv'
  <2>1. \A c \in Conns : ThreadOk(th[c], jobs', node_tip')
    BY <1>2, <1>3, ThreadOkStable DEF Inv, ThreadsInv, JobsInv, JobsOk
  <2> QED
    BY <1>1, <2>1 DEF Inv, ThreadsInv
<1>5. CreditsInv'
  BY <1>1, <1>2, <1>3, NoCreditStep DEF Inv, CreditsInv
<1> QED
  BY <1>3, <1>4, <1>5 DEF Inv

(* A fresh server satisfies the invariant.                                 *)
LEMMA InitInv == Init => Inv
<1> SUFFICES ASSUME Init PROVE Inv
  OBVIOUS
<1>1. JobsInv
  <2>1. [previous_block |-> 0, seen |-> {}] \in Jobs
    BY DEF Jobs
  <2> QED
    BY <2>1 DEF Init, JobsInv, JobsOk
<1>2. ThreadsInv
  <2>1. \A c \in Conns : th[c] = Free /\ th[c].pc \notin HasShare
    BY DEF Init, Free, HasShare
  <2>2. \A c \in Conns : ThreadOk(th[c], jobs, node_tip)
    BY <2>1, IdleOk
  <2>3. th \in [Conns -> Threads]
    BY FreeTyped DEF Init
  <2>4. next_session_id \in 1..(MaxSessions + 1)
    <3>1. MaxSessions \in Nat
      BY PoolAssumption
    <3> QED
      BY <3>1 DEF Init
  <2> QED
    BY <2>2, <2>3, <2>4 DEF ThreadsInv
<1>3. CreditsInv
  <2>1. IsFiniteSet({}) /\ Cardinality({}) = 0
    BY FS_EmptySet
  <2>2. totals \in Tallies /\ totals.accepted = 0 /\ totals.blocks = 0
    BY DEF Init, NoShares, Tallies
  <2> QED
    BY <2>1, <2>2 DEF Init, CreditsInv
<1> QED
  BY <1>1, <1>2, <1>3 DEF Inv

(* Every step of the pool preserves the invariant.                         *)
LEMMA NextInv == Inv /\ [Next]_vars => Inv'
<1> SUFFICES ASSUME Inv, [Next]_vars PROVE Inv'
  OBVIOUS
<1>1. ASSUME NEW c \in Conns, ThreadStep(c) PROVE Inv'
  BY <1>1, ConnectionInv, RotationInv, MessageInv, RejectInv, BlockFailsInv,
     AcceptedInv DEF ThreadStep
<1>2. ASSUME NEW c \in Conns,
             \/ AcceptConnection(c) \/ \E p \in Payouts : Hello(c, p)
      PROVE  Inv'
  BY <1>2, ConnectionInv
<1>3. ASSUME NEW c \in Conns,
             \/ SessionFails(c) \/ \E j \in 1..current, n \in Nonces : ReadShare(c, j, n)
      PROVE  Inv'
  BY <1>3, MessageInv
<1>4. CASE ListenerRotates \/ PeerBlock \/ StopServer \/ UNCHANGED vars
  BY <1>4, OutsideInv
<1> QED
  BY <1>1, <1>2, <1>3, <1>4 DEF Next

(* The inductive invariant of the pool server.                             *)
THEOREM PoolInvariant == Spec => []Inv
  BY InitInv, NextInv, PTL DEF Spec

(* However the sessions interleave, and whether or not a job's duplicate   *)
(* set is full, each accepted share is a distinct nonce of a distinct job. *)
THEOREM NoDoubleCredit == Spec => []CreditedOnce
<1>1. Inv => CreditedOnce
  BY DEF Inv, CreditsInv, CreditedOnce
<1> QED
  BY <1>1, PoolInvariant, PTL

(* No job pays for two blocks, and the pool never counts more blocks than  *)
(* the node's tip has moved.                                               *)
THEOREM SingleBlock == Spec => []OneBlockPerJob
<1>1. Inv => OneBlockPerJob
  BY DEF Inv, CreditsInv, OneBlockPerJob
<1> QED
  BY <1>1, PoolInvariant, PTL

(* A thread's record changes only by steps of its own.                     *)
LEMMA OtherThreadsKept ==
  ASSUME Inv, NEW c \in Conns, NEW d \in Conns, d # c,
         \/ ThreadStep(d) \/ AcceptConnection(d) \/ SessionFails(d)
         \/ \E p \in Payouts : Hello(d, p)
         \/ \E j \in 1..current, n \in Nonces : ReadShare(d, j, n)
  PROVE  th'[c] = th[c]
<1>1. th \in [Conns -> Threads]
  BY DEF Inv, ThreadsInv
<1>2. CASE \/ AcceptConnection(d) \/ SessionFails(d) \/ \E p \in Payouts : Hello(d, p)
           \/ \E j \in 1..current, n \in Nonces : ReadShare(d, j, n)
  BY <1>1, <1>2 DEF AcceptConnection, SessionFails, Hello, ReadShare, Goto, Unwind
<1>3. CASE \/ HelloRefused(d) \/ RegisterSession(d) \/ Greet(d) \/ DropSession(d)
           \/ ReleaseConnection(d) \/ LoopTop(d) \/ RotateBefore(d) \/ ReadBefore(d)
  BY <1>1, <1>3 DEF HelloRefused, RegisterSession, Greet, DropSession,
                    ReleaseConnection, LoopTop, RotateBefore, ReadBefore, Goto
<1>4. CASE \/ Process(d) \/ SubmitStale(d) \/ SubmitRefused(d) \/ SubmitAccepted(d)
           \/ SubmitBlockFails(d)
  BY <1>1, <1>4 DEF Process, SubmitStale, SubmitRefused, SubmitAccepted,
                    SubmitBlockFails, Goto, Unwind
<1>5. CASE RotateAfter(d) \/ Reject(d) \/ Answer(d) \/ SessionStops(d)
  BY <1>1, <1>5 DEF RotateAfter, Reject, Answer, SessionStops, Goto, Unwind
<1> QED
  BY <1>2, <1>3, <1>4, <1>5 DEF ThreadStep

(* From its answer a session gets back to its loop by sending the answer.  *)
LEMMA OnlyAnswerAnswers ==
  ASSUME Inv, Next, NEW c \in Conns, th[c].pc = "answer", th'[c].pc = "loop"
  PROVE  Answer(c)
<1>1. ~(ListenerRotates \/ PeerBlock \/ StopServer)
  BY DEF ListenerRotates, PeerBlock, StopServer
<1>2. PICK d \in Conns : \/ ThreadStep(d) \/ AcceptConnection(d) \/ SessionFails(d)
                         \/ \E p \in Payouts : Hello(d, p)
                         \/ \E j \in 1..current, n \in Nonces : ReadShare(d, j, n)
  BY <1>1 DEF Next
<1>3. d = c
  BY <1>2, OtherThreadsKept
<1>4. ~SessionFails(c)
  <2> SUFFICES ASSUME SessionFails(c) PROVE FALSE
    OBVIOUS
  <2>1. th[c] \in Threads /\ th \in [Conns -> Threads]
    BY DEF Inv, ThreadsInv
  <2>2. PICK t \in Threads : t.pc = "drop" /\ th' = [th EXCEPT ![c] = t]
    BY <2>1, UnwindTyped DEF SessionFails
  <2> QED
    BY <2>1, <2>2
<1>5. /\ ~AcceptConnection(c) /\ \A p \in Payouts : ~Hello(c, p)
      /\ \A j \in 1..current, n \in Nonces : ~ReadShare(c, j, n)
  BY DEF AcceptConnection, Hello, ReadShare
<1>6. ThreadStep(c)
  BY <1>2, <1>3, <1>4, <1>5
<1> QED
  BY <1>6 DEF ThreadStep, HelloRefused, RegisterSession, Greet, DropSession,
        ReleaseConnection, LoopTop, RotateBefore, ReadBefore, Process, SubmitStale,
        SubmitRefused, SubmitAccepted, SubmitBlockFails, Reserves, SubmitsToTip,
        RotateAfter, Reject, SessionStops, SeesStop

(* A client told that its job is stale holds another one by then: the      *)
(* answer is stale only when the job is behind the current one, and then   *)
(* one of the two comparisons around process_share announces a job.        *)
THEOREM StaleRefreshed == Spec => StaleIsRefreshed
<1> DEFINE Refreshed == \A c \in Conns :
             th[c].pc = "answer" /\ th[c].stale /\ th'[c].pc = "loop"
               => th'[c].known # th[c].job
<1>1. Inv /\ [Next]_vars => [Refreshed]_vars
  <2> SUFFICES ASSUME Inv, Next, NEW c \in Conns, th[c].pc = "answer", th[c].stale,
                      th'[c].pc = "loop"
               PROVE  th'[c].known # th[c].job
    OBVIOUS
  <2>1. Answer(c)
    BY OnlyAnswerAnswers
  <2>2. /\ th \in [Conns -> Threads] /\ th[c] \in Threads
        /\ th[c].job < Len(jobs) /\ th[c].job \in Nat /\ Len(jobs) \in Nat
    <3>1. th[c] \in Threads /\ ThreadOk(th[c], jobs, node_tip)
      BY DEF Inv, ThreadsInv
    <3> QED
      BY <3>1 DEF Inv, ThreadsInv, JobsInv, JobsOk, ThreadOk, Threads
  <2>3. Announces(c)
    BY <2>2 DEF Announces, current
  <2>4. th'[c].known = Len(jobs)
    <3>1. th' = [th EXCEPT ![c] =
                   [th[c] EXCEPT !.pc = "loop", !.job = 0, !.nonce = NoPayout,
                                 !.before = 0, !.stale = FALSE, !.known = current]]
      BY <2>1, <2>3 DEF Answer
    <3> QED
      BY <2>2, <3>1 DEF Threads, current
  <2> QED
    BY <2>2, <2>4
<1> QED
  BY <1>1, PoolInvariant, PTL DEF Spec, StaleIsRefreshed

-----------------------------------------------------------------------------
(* The ledger's two tables, as values.                                     *)
Fields == {"accepted", "rejected", "blocks"}
SessionRecords == [connected : BOOLEAN, payout : Payouts, tally : Tallies]
PayoutRecords == [last : 1..MaxSessions, tally : Tallies]

(* Typed tables in which every session's label has a record.               *)
TablesOk(ss, ps) ==
    /\ DOMAIN ss \subseteq 1..MaxSessions /\ ss \in [DOMAIN ss -> SessionRecords]
    /\ DOMAIN ps \subseteq Payouts /\ ps \in [DOMAIN ps -> PayoutRecords]
    /\ \A s \in DOMAIN ss : ss[s].payout \in DOMAIN ps

(* Labels cover their sessions, the totals cover the labels.               *)
Nested(ss, ps, tot) ==
    \A f \in Fields :
        /\ \A p \in DOMAIN ps : SessionSum(ss, p, f) <= ps[p].tally[f]
        /\ PayoutSum(ps, f) <= tot[f]

(* What a session, or a label, adds to its sum.                            *)
Column(table, f) == [x \in DOMAIN table |-> table[x].tally[f]]

(* A tally is a natural number in each field, and Plus adds field by field.*)
LEMMA TallyFields ==
  ASSUME NEW t \in Tallies, NEW u \in Tallies, NEW f \in Fields
  PROVE  /\ t[f] \in Nat /\ Plus(t, u) \in Tallies /\ Plus(t, u)[f] = t[f] + u[f]
         /\ NoShares \in Tallies /\ NoShares[f] = 0
<1>1. Plus(t, u) \in Tallies /\ NoShares \in Tallies
  BY DEF Plus, NoShares, Tallies
<1>2. CASE f = "accepted"
  BY <1>1, <1>2 DEF Plus, NoShares, Tallies
<1>3. CASE f = "rejected"
  BY <1>1, <1>3 DEF Plus, NoShares, Tallies
<1>4. CASE f = "blocks"
  BY <1>1, <1>4 DEF Plus, NoShares, Tallies
<1> QED
  BY <1>2, <1>3, <1>4, <1>1 DEF Fields

(* The sums of the model are the sums FiniteSums reasons about.            *)
LEMMA SessionSumIs ==
  ASSUME NEW ss, IsFiniteSet(DOMAIN ss), NEW p, NEW f
  PROVE  SessionSum(ss, p, f) = SumOver(Column(ss, f), SessionsOf(ss, p))
<1> DEFINE S == SessionsOf(ss, p)
           h == CHOOSE iter :
                  iter = [s \in SUBSET S |->
                            IF s = {} THEN 0
                            ELSE ss[CHOOSE x \in s : TRUE].tally[f]
                                    + iter[s \ {CHOOSE x \in s : TRUE}]]
<1>0. S \subseteq DOMAIN ss /\ IsFiniteSet(S)
  BY FS_Subset DEF SessionsOf
<1>1. SessionSum(ss, p, f) = h[S]
  BY DEF SessionSum, MapThenSumSet, MapThenFoldSet
<1> HIDE DEF S
<1>2. IsFold(h, Column(ss, f), S)
  <2>1. \A s \in SUBSET S : s # {} => Pick(s) \in DOMAIN ss
    BY <1>0, PickIn
  <2>2. \A s \in SUBSET S : s # {} => Column(ss, f)[Pick(s)] = ss[Pick(s)].tally[f]
    BY <2>1 DEF Column
  <2>3. PICK g : IsFold(g, Column(ss, f), S)
    BY <1>0, FoldExists
  <2>4. g = [s \in SUBSET S |-> IF s = {} THEN 0 ELSE ss[Pick(s)].tally[f] + g[s \ {Pick(s)}]]
    BY <2>2, <2>3 DEF IsFold, FoldStep
  <2>5. h = [s \in SUBSET S |-> IF s = {} THEN 0 ELSE ss[Pick(s)].tally[f] + h[s \ {Pick(s)}]]
    BY <2>4 DEF Pick
  <2> HIDE DEF h
  <2> QED
    BY <2>2, <2>5 DEF IsFold, FoldStep
<1> HIDE DEF h
<1>3. PICK g : IsFold(g, Column(ss, f), S) /\ SumOver(Column(ss, f), S) = g[S]
  BY <1>0, SumIsFold
<1>4. S \in SUBSET S
  OBVIOUS
<1>5. g[S] = h[S]
  BY <1>0, <1>2, <1>3, <1>4, FoldsAgree
<1> QED
  BY <1>1, <1>3, <1>5 DEF S

(* The same for the labels.                                                *)
LEMMA PayoutSumIs ==
  ASSUME NEW ps, IsFiniteSet(DOMAIN ps), NEW f
  PROVE  PayoutSum(ps, f) = SumOver(Column(ps, f), DOMAIN ps)
<1> DEFINE S == DOMAIN ps
           h == CHOOSE iter :
                  iter = [s \in SUBSET S |->
                            IF s = {} THEN 0
                            ELSE ps[CHOOSE x \in s : TRUE].tally[f]
                                    + iter[s \ {CHOOSE x \in s : TRUE}]]
<1>1. PayoutSum(ps, f) = h[S]
  BY DEF PayoutSum, MapThenSumSet, MapThenFoldSet
<1>2. IsFold(h, Column(ps, f), S)
  <2>1. \A s \in SUBSET S : s # {} => Pick(s) \in S
    BY PickIn
  <2>2. \A s \in SUBSET S : s # {} => Column(ps, f)[Pick(s)] = ps[Pick(s)].tally[f]
    BY <2>1 DEF Column
  <2> HIDE DEF S
  <2>3. PICK g : IsFold(g, Column(ps, f), S)
    BY FoldExists DEF S
  <2>4. g = [s \in SUBSET S |-> IF s = {} THEN 0 ELSE ps[Pick(s)].tally[f] + g[s \ {Pick(s)}]]
    BY <2>2, <2>3 DEF IsFold, FoldStep
  <2>5. h = [s \in SUBSET S |-> IF s = {} THEN 0 ELSE ps[Pick(s)].tally[f] + h[s \ {Pick(s)}]]
    BY <2>4 DEF Pick
  <2> HIDE DEF h
  <2> QED
    BY <2>2, <2>5 DEF IsFold, FoldStep
<1> HIDE DEF h
<1>3. PICK g : IsFold(g, Column(ps, f), S) /\ SumOver(Column(ps, f), S) = g[S]
  BY SumIsFold
<1>4. S \in SUBSET S
  OBVIOUS
<1>5. g[S] = h[S]
  BY <1>2, <1>3, <1>4, FoldsAgree
<1> QED
  BY <1>1, <1>3, <1>5

(* Both tables are finite.                                                 *)
LEMMA TablesFinite ==
  ASSUME NEW ss, NEW ps, TablesOk(ss, ps)
  PROVE  /\ IsFiniteSet(DOMAIN ss) /\ IsFiniteSet(DOMAIN ps)
         /\ \A p : IsFiniteSet(SessionsOf(ss, p)) /\ SessionsOf(ss, p) \subseteq DOMAIN ss
<1>1. IsFiniteSet(1..MaxSessions)
  BY FS_Interval, PoolAssumption
<1>2. IsFiniteSet(DOMAIN ss)
  BY <1>1, FS_Subset DEF TablesOk
<1>3. IsFiniteSet(DOMAIN ps)
  BY FS_Subset, PoolAssumption DEF TablesOk
<1>4. \A p : SessionsOf(ss, p) \subseteq DOMAIN ss
  BY DEF SessionsOf
<1> QED
  BY <1>2, <1>3, <1>4, FS_Subset

(* The columns hold naturals.                                              *)
LEMMA ColumnTyped ==
  ASSUME NEW ss, NEW ps, TablesOk(ss, ps), NEW f \in Fields
  PROVE  /\ \A s \in DOMAIN ss : /\ Column(ss, f)[s] = ss[s].tally[f]
                                 /\ ss[s].tally \in Tallies /\ Column(ss, f)[s] \in Nat
         /\ \A p \in DOMAIN ps : /\ Column(ps, f)[p] = ps[p].tally[f]
                                 /\ ps[p].tally \in Tallies /\ Column(ps, f)[p] \in Nat
<1>1. ASSUME NEW s \in DOMAIN ss
      PROVE  ss[s].tally \in Tallies /\ ss[s].tally[f] \in Nat
  <2>1. ss[s] \in SessionRecords
    BY DEF TablesOk
  <2>2. ss[s].tally \in Tallies
    BY <2>1 DEF SessionRecords
  <2> QED
    BY <2>2, TallyFields
<1>2. ASSUME NEW p \in DOMAIN ps
      PROVE  ps[p].tally \in Tallies /\ ps[p].tally[f] \in Nat
  <2>1. ps[p] \in PayoutRecords
    BY DEF TablesOk
  <2>2. ps[p].tally \in Tallies
    BY <2>1 DEF PayoutRecords
  <2> QED
    BY <2>2, TallyFields
<1> QED
  BY <1>1, <1>2 DEF Column

(* The session table after record_share.                                   *)
Recorded(ss, s, d) == [ss EXCEPT ![s].tally = Plus(@, d)]

(* record_share: the session, its label and the totals gain the same.      *)
LEMMA CreditNests ==
  ASSUME NEW ss, NEW ps, TablesOk(ss, ps), NEW tot \in Tallies, Nested(ss, ps, tot),
         NEW s \in DOMAIN ss, NEW d \in Tallies,
         NEW ss2, ss2 = Recorded(ss, s, d),
         NEW ps2, ps2 = Touch(ps, ss[s].payout, s, d)
  PROVE  TablesOk(ss2, ps2) /\ Nested(ss2, ps2, Plus(tot, d))
<1> DEFINE p == ss[s].payout
<1>1. /\ ss[s] \in SessionRecords /\ p \in DOMAIN ps /\ ps[p] \in PayoutRecords
      /\ s \in 1..MaxSessions
  BY DEF TablesOk
<1>2. /\ ss[s].tally \in Tallies /\ ps[p].tally \in Tallies
      /\ Plus(ss[s].tally, d) \in Tallies /\ Plus(ps[p].tally, d) \in Tallies
  BY <1>1, TallyFields DEF SessionRecords, PayoutRecords, Fields
<1> DEFINE r == [ss[s] EXCEPT !.tally = Plus(ss[s].tally, d)]
<1>3. /\ r \in SessionRecords /\ r.payout = p /\ r.tally = Plus(ss[s].tally, d)
      /\ ss2 = [ss EXCEPT ![s] = r]
  <2>1. r \in SessionRecords /\ r.payout = p /\ r.tally = Plus(ss[s].tally, d)
    BY <1>1, <1>2 DEF SessionRecords
  <2> QED
    BY <2>1 DEF Recorded
<1> HIDE DEF r
<1>4. /\ DOMAIN ss2 = DOMAIN ss /\ ss2[s] = r
      /\ \A i \in DOMAIN ss : i # s => ss2[i] = ss[i]
      /\ ss2 \in [DOMAIN ss2 -> SessionRecords]
  BY <1>3 DEF TablesOk
<1>5. /\ DOMAIN ps2 = DOMAIN ps
      /\ ps2[p] = [last |-> s, tally |-> Plus(ps[p].tally, d)]
      /\ \A q \in DOMAIN ps : q # p => ps2[q] = ps[q]
  BY <1>1 DEF Touch
<1>6. ps2[p] \in PayoutRecords /\ ps2[p].tally = Plus(ps[p].tally, d)
  BY <1>1, <1>2, <1>5 DEF PayoutRecords
<1> HIDE DEF p
<1>7. ps2 \in [DOMAIN ps2 -> PayoutRecords]
  <2>1. ps2 = [q \in DOMAIN ps2 |-> ps2[q]]
    BY DEF Touch
  <2>2. \A q \in DOMAIN ps2 : ps2[q] \in PayoutRecords
    BY <1>5, <1>6 DEF TablesOk
  <2> QED
    BY <2>1, <2>2
<1>8. \A i \in DOMAIN ss2 : ss2[i].payout = ss[i].payout
  BY <1>3, <1>4 DEF p
<1>9. TablesOk(ss2, ps2)
  BY <1>4, <1>5, <1>7, <1>8 DEF TablesOk
<1>10. \A q : SessionsOf(ss2, q) = SessionsOf(ss, q)
  BY <1>4, <1>8 DEF SessionsOf
<1>11. Nested(ss2, ps2, Plus(tot, d))
  <2> SUFFICES ASSUME NEW f \in Fields
               PROVE  /\ \A q \in DOMAIN ps2 : SessionSum(ss2, q, f) <= ps2[q].tally[f]
                      /\ PayoutSum(ps2, f) <= Plus(tot, d)[f]
    BY DEF Nested
  <2>1. /\ IsFiniteSet(DOMAIN ss) /\ IsFiniteSet(DOMAIN ps)
        /\ \A q : IsFiniteSet(SessionsOf(ss, q)) /\ SessionsOf(ss, q) \subseteq DOMAIN ss
    BY TablesFinite
  <2>2. d[f] \in Nat /\ tot[f] \in Nat /\ Plus(tot, d)[f] = tot[f] + d[f]
    BY TallyFields
  <2>3. /\ \A i \in DOMAIN ss : Column(ss, f)[i] \in Nat /\ Column(ss2, f)[i] \in Nat
        /\ \A i \in DOMAIN ss : i # s => Column(ss2, f)[i] = Column(ss, f)[i]
        /\ Column(ss2, f)[s] = Column(ss, f)[s] + d[f]
    <3>1. /\ \A i \in DOMAIN ss : Column(ss, f)[i] \in Nat /\ Column(ss, f)[i] = ss[i].tally[f]
          /\ \A i \in DOMAIN ss2 : Column(ss2, f)[i] \in Nat /\ Column(ss2, f)[i] = ss2[i].tally[f]
      <4>1. \A i \in DOMAIN ss : Column(ss, f)[i] \in Nat /\ Column(ss, f)[i] = ss[i].tally[f]
        BY ColumnTyped
      <4>2. \A i \in DOMAIN ss2 : Column(ss2, f)[i] \in Nat /\ Column(ss2, f)[i] = ss2[i].tally[f]
        BY <1>9, ColumnTyped
      <4> QED
        BY <4>1, <4>2
    <3>2. Plus(ss[s].tally, d)[f] = ss[s].tally[f] + d[f]
      BY <1>2, TallyFields
    <3>3. ss2[s].tally[f] = ss[s].tally[f] + d[f]
      BY <1>3, <1>4, <3>2
    <3> QED
      BY <1>4, <3>1, <3>3
  <2>4. /\ \A q \in DOMAIN ps : Column(ps, f)[q] \in Nat /\ Column(ps2, f)[q] \in Nat
        /\ \A q \in DOMAIN ps : q # p => Column(ps2, f)[q] = Column(ps, f)[q]
        /\ \A q \in DOMAIN ps : ps[q].tally[f] = Column(ps, f)[q]
                                 /\ ps2[q].tally[f] = Column(ps2, f)[q]
        /\ Column(ps2, f)[p] = Column(ps, f)[p] + d[f]
    <3>1. /\ \A q \in DOMAIN ps : Column(ps, f)[q] \in Nat /\ Column(ps, f)[q] = ps[q].tally[f]
          /\ \A q \in DOMAIN ps2 : Column(ps2, f)[q] \in Nat /\ Column(ps2, f)[q] = ps2[q].tally[f]
      BY <1>9, ColumnTyped
    <3>2. Plus(ps[p].tally, d)[f] = ps[p].tally[f] + d[f]
      BY <1>2, TallyFields DEF p
    <3>3. p \in DOMAIN ps
      BY <1>1 DEF p
    <3> QED
      BY <1>5, <1>6, <3>1, <3>2, <3>3
  <2>5. ASSUME NEW q \in DOMAIN ps2
        PROVE  SessionSum(ss2, q, f) <= ps2[q].tally[f]
    <3> DEFINE S == SessionsOf(ss, q)
    <3>1. /\ SessionSum(ss, q, f) = SumOver(Column(ss, f), S)
          /\ SessionSum(ss2, q, f) = SumOver(Column(ss2, f), S)
      BY <1>4, <1>10, <2>1, SessionSumIs
    <3>2. SumOver(Column(ss, f), S) <= Column(ps, f)[q]
      BY <1>5, <2>4, <3>1 DEF Nested
    <3>3. SumOver(Column(ss, f), S) \in Nat /\ IsFiniteSet(S) /\ S \subseteq DOMAIN ss
      <4>1. IsFiniteSet(S) /\ S \subseteq DOMAIN ss
        BY <2>1
      <4>2. \A i \in S : Column(ss, f)[i] \in Nat
        BY <2>3, <4>1
      <4> HIDE DEF S
      <4> QED
        BY <4>1, <4>2, SumNat
    <3>4. CASE q # p
      <4>1. s \notin S
        BY <3>4 DEF SessionsOf, p
      <4>2. \A i \in S : Column(ss2, f)[i] = Column(ss, f)[i]
        BY <2>3, <3>3, <4>1
      <4>3. SumOver(Column(ss2, f), S) = SumOver(Column(ss, f), S)
        <5> HIDE DEF S
        <5> QED
          BY <3>3, <4>2, SumAgree
      <4> QED
        BY <1>5, <2>4, <3>1, <3>2, <3>4, <4>3
    <3>5. CASE q = p
      <4>1. s \in S
        BY <3>5 DEF SessionsOf, p
      <4>2. /\ \A i \in S : Column(ss, f)[i] \in Nat /\ Column(ss2, f)[i] \in Nat
            /\ \A i \in S \ {s} : Column(ss2, f)[i] = Column(ss, f)[i]
        BY <2>3, <3>3
      <4>3. SumOver(Column(ss2, f), S) + Column(ss, f)[s]
               = SumOver(Column(ss, f), S) + Column(ss2, f)[s]
        <5> DEFINE A == Column(ss, f)
                   B == Column(ss2, f)
        <5>1. /\ \A i \in S : B[i] \in Nat /\ A[i] \in Nat
              /\ \A i \in S \ {s} : B[i] = A[i]
          BY <4>2
        <5> HIDE DEF S, A, B
        <5>2. SumOver(B, S) + A[s] = SumOver(A, S) + B[s]
          BY <3>3, <4>1, <5>1, SumUpdate
        <5> QED
          BY <5>2 DEF A, B
      <4>4. SumOver(Column(ss2, f), S) \in Nat /\ Column(ss, f)[s] \in Nat
        <5>1. Column(ss, f)[s] \in Nat
          BY <2>3
        <5> HIDE DEF S
        <5> QED
          BY <3>3, <4>2, <5>1, SumNat
      <4>5. SumOver(Column(ss2, f), S) = SumOver(Column(ss, f), S) + d[f]
        <5> HIDE DEF S
        <5> QED
          BY <2>2, <2>3, <3>3, <4>3, <4>4
      <4>6. Column(ps2, f)[q] = Column(ps, f)[q] + d[f] /\ Column(ps, f)[q] \in Nat
        BY <1>5, <2>4, <3>5
      <4> HIDE DEF S
      <4> QED
        BY <1>5, <2>2, <2>4, <3>1, <3>2, <3>3, <4>5, <4>6
    <3> QED
      BY <3>4, <3>5
  <2>6. PayoutSum(ps2, f) <= Plus(tot, d)[f]
    <3> DEFINE S == DOMAIN ps
    <3>1. /\ PayoutSum(ps, f) = SumOver(Column(ps, f), S)
          /\ PayoutSum(ps2, f) = SumOver(Column(ps2, f), S)
      BY <1>5, <2>1, PayoutSumIs
    <3>2. PayoutSum(ps, f) <= tot[f]
      BY DEF Nested
    <3>3. p \in S
      BY <1>1 DEF p
    <3>4. SumOver(Column(ps2, f), S) + Column(ps, f)[p] = SumOver(Column(ps, f), S) + Column(ps2, f)[p]
      <4> DEFINE A == Column(ps, f)
                 B == Column(ps2, f)
      <4>1. /\ \A i \in S : B[i] \in Nat /\ A[i] \in Nat
            /\ \A i \in S \ {p} : B[i] = A[i]
            /\ IsFiniteSet(S)
        BY <2>1, <2>4
      <4> HIDE DEF S, A, B
      <4>2. SumOver(B, S) + A[p] = SumOver(A, S) + B[p]
        BY <3>3, <4>1, SumUpdate
      <4> QED
        BY <4>2 DEF A, B
    <3>5. SumOver(Column(ps2, f), S) \in Nat /\ SumOver(Column(ps, f), S) \in Nat
      BY <2>1, <2>4, SumNat
    <3>6. SumOver(Column(ps2, f), S) = SumOver(Column(ps, f), S) + d[f]
      BY <2>2, <2>4, <3>3, <3>4, <3>5
    <3> QED
      BY <2>2, <3>1, <3>2, <3>5, <3>6
  <2> QED
    BY <2>5, <2>6
<1> QED
  BY <1>9, <1>11

(* Fewer sessions on record: the sums of the labels only shrink.           *)
LEMMA PruneSessionNests ==
  ASSUME NEW ss, NEW ps, TablesOk(ss, ps), NEW tot, Nested(ss, ps, tot),
         NEW K \in SUBSET DOMAIN ss, NEW ss2, ss2 = Restrict(ss, K)
  PROVE  TablesOk(ss2, ps) /\ Nested(ss2, ps, tot)
<1>1. DOMAIN ss2 = K /\ \A i \in K : ss2[i] = ss[i]
  BY DEF Restrict
<1>2. TablesOk(ss2, ps)
  <2>1. ss2 \in [K -> SessionRecords]
    BY DEF TablesOk, Restrict
  <2> QED
    BY <1>1, <2>1 DEF TablesOk
<1>3. ASSUME NEW f \in Fields, NEW q \in DOMAIN ps
      PROVE  SessionSum(ss2, q, f) <= ps[q].tally[f]
  <2> DEFINE S == SessionsOf(ss, q)
             T == SessionsOf(ss2, q)
  <2>1. IsFiniteSet(DOMAIN ss) /\ IsFiniteSet(S) /\ S \subseteq DOMAIN ss
    BY TablesFinite
  <2>2. IsFiniteSet(DOMAIN ss2) /\ IsFiniteSet(T)
    BY <1>2, TablesFinite
  <2>3. T \in SUBSET S
    BY <1>1 DEF SessionsOf
  <2>4. \A i \in S : Column(ss, f)[i] \in Nat
    BY <2>1, ColumnTyped
  <2>5. \A i \in T : Column(ss2, f)[i] = Column(ss, f)[i]
    BY <1>1 DEF Column, SessionsOf
  <2>6. SessionSum(ss, q, f) = SumOver(Column(ss, f), S)
    BY <2>1, SessionSumIs
  <2>7. SessionSum(ss2, q, f) = SumOver(Column(ss2, f), T)
    BY <2>2, SessionSumIs
  <2> HIDE DEF S, T
  <2>8. SumOver(Column(ss2, f), T) = SumOver(Column(ss, f), T)
    BY <2>2, <2>5, SumAgree
  <2>9. SumOver(Column(ss, f), T) <= SumOver(Column(ss, f), S)
    BY <2>1, <2>3, <2>4, SumSubset
  <2>10. SumOver(Column(ss, f), T) \in Nat /\ SumOver(Column(ss, f), S) \in Nat
    <3>1. \A i \in T : Column(ss, f)[i] \in Nat
      BY <2>3, <2>4
    <3> QED
      BY <2>1, <2>2, <2>4, <3>1, SumNat
  <2>11. ps[q].tally[f] \in Nat
    BY ColumnTyped
  <2>12. SessionSum(ss, q, f) <= ps[q].tally[f]
    BY DEF Nested
  <2> QED
    BY <2>6, <2>7, <2>8, <2>9, <2>10, <2>11, <2>12
<1>4. Nested(ss2, ps, tot)
  BY <1>3 DEF Nested
<1> QED
  BY <1>2, <1>4

(* Fewer labels on record, none of them in use.                            *)
LEMMA PrunePayoutNests ==
  ASSUME NEW ss, NEW ps, TablesOk(ss, ps), NEW tot \in Tallies, Nested(ss, ps, tot),
         NEW K \in SUBSET DOMAIN ps, \A s \in DOMAIN ss : ss[s].payout \in K,
         NEW ps2, ps2 = Restrict(ps, K)
  PROVE  TablesOk(ss, ps2) /\ Nested(ss, ps2, tot)
<1>1. DOMAIN ps2 = K /\ \A i \in K : ps2[i] = ps[i]
  BY DEF Restrict
<1>2. TablesOk(ss, ps2)
  <2>1. ps2 \in [K -> PayoutRecords]
    BY DEF TablesOk, Restrict
  <2> QED
    BY <1>1, <2>1 DEF TablesOk
<1>3. ASSUME NEW f \in Fields
      PROVE  PayoutSum(ps2, f) <= tot[f]
  <2>1. IsFiniteSet(DOMAIN ps) /\ IsFiniteSet(K)
    BY <1>1, <1>2, TablesFinite
  <2>2. \A i \in DOMAIN ps : Column(ps, f)[i] \in Nat
    BY ColumnTyped
  <2>3. \A i \in K : Column(ps2, f)[i] = Column(ps, f)[i]
    BY <1>1 DEF Column
  <2>4. PayoutSum(ps, f) = SumOver(Column(ps, f), DOMAIN ps)
    BY <2>1, PayoutSumIs
  <2>5. PayoutSum(ps2, f) = SumOver(Column(ps2, f), K)
    BY <1>1, <2>1, PayoutSumIs
  <2>6. SumOver(Column(ps2, f), K) = SumOver(Column(ps, f), K)
    BY <2>1, <2>3, SumAgree
  <2>7. SumOver(Column(ps, f), K) <= SumOver(Column(ps, f), DOMAIN ps)
    BY <2>1, <2>2, SumSubset
  <2>8. SumOver(Column(ps, f), K) \in Nat /\ SumOver(Column(ps, f), DOMAIN ps) \in Nat
    BY <2>1, <2>2, SumNat
  <2>9. tot[f] \in Nat /\ PayoutSum(ps, f) <= tot[f]
    BY TallyFields DEF Nested
  <2> QED
    BY <2>4, <2>5, <2>6, <2>7, <2>8, <2>9
<1>4. ASSUME NEW f \in Fields, NEW q \in K
      PROVE  SessionSum(ss, q, f) <= ps2[q].tally[f]
  BY <1>1 DEF Nested
<1>5. Nested(ss, ps2, tot)
  BY <1>1, <1>3, <1>4 DEF Nested
<1> QED
  BY <1>2, <1>5

(* The session table after register_session, once it has made room.        *)
Enrolled(ss, s, p) ==
    [i \in DOMAIN ss \cup {s} |->
        IF i = s THEN [connected |-> TRUE, payout |-> p, tally |-> NoShares] ELSE ss[i]]

(* A fresh session and its label come with nothing in their tallies.       *)
LEMMA EnrolNests ==
  ASSUME NEW ss, NEW ps, TablesOk(ss, ps), NEW tot \in Tallies, Nested(ss, ps, tot),
         NEW s \in 1..MaxSessions, s \notin DOMAIN ss, NEW p \in Payouts,
         NEW ss2, ss2 = Enrolled(ss, s, p), NEW ps2, ps2 = Touch(ps, p, s, NoShares)
  PROVE  TablesOk(ss2, ps2) /\ Nested(ss2, ps2, tot)
<1> DEFINE r == [connected |-> TRUE, payout |-> p, tally |-> NoShares]
<1>1. /\ NoShares \in Tallies /\ \A f \in Fields : NoShares[f] = 0
      /\ \A t \in Tallies : Plus(t, NoShares) \in Tallies
      /\ \A t \in Tallies, f \in Fields : Plus(t, NoShares)[f] = t[f] /\ t[f] \in Nat
  <2>1. NoShares \in Tallies
    BY DEF NoShares, Tallies
  <2>2. \A f \in Fields : NoShares[f] = 0
    BY <2>1, TallyFields
  <2>3. ASSUME NEW t \in Tallies, NEW f \in Fields
        PROVE  Plus(t, NoShares)[f] = t[f] /\ t[f] \in Nat
    <3>1. Plus(t, NoShares)[f] = t[f] + NoShares[f] /\ t[f] \in Nat
      BY <2>1, TallyFields
    <3> QED
      BY <2>2, <3>1
  <2>4. \A t \in Tallies : Plus(t, NoShares) \in Tallies
    BY <2>1 DEF Plus, Tallies
  <2> QED
    BY <2>1, <2>2, <2>3, <2>4
<1>2. r \in SessionRecords /\ r.payout = p /\ r.tally = NoShares
  BY <1>1 DEF SessionRecords
<1>3. /\ DOMAIN ss2 = DOMAIN ss \cup {s} /\ ss2[s] = r
      /\ \A i \in DOMAIN ss : ss2[i] = ss[i]
      /\ ss2 = [i \in DOMAIN ss2 |-> ss2[i]]
  BY DEF Enrolled
<1> HIDE DEF r
<1>4. ss2 \in [DOMAIN ss2 -> SessionRecords]
  <2>1. \A i \in DOMAIN ss2 : ss2[i] \in SessionRecords
    BY <1>2, <1>3 DEF TablesOk
  <2> QED
    BY <1>3, <2>1
<1> DEFINE old == IF p \in DOMAIN ps THEN ps[p].tally ELSE NoShares
<1>5. old \in Tallies
  BY <1>1 DEF TablesOk, PayoutRecords
<1>6. /\ DOMAIN ps2 = DOMAIN ps \cup {p} /\ ps2[p] = [last |-> s, tally |-> Plus(old, NoShares)]
      /\ \A q \in DOMAIN ps : q # p => ps2[q] = ps[q]
      /\ ps2 = [q \in DOMAIN ps2 |-> ps2[q]]
  BY DEF Touch
<1>7. ps2[p] \in PayoutRecords /\ ps2[p].tally = Plus(old, NoShares)
  <2>1. Plus(old, NoShares) \in Tallies
    BY <1>1, <1>5
  <2> HIDE DEF old
  <2> QED
    BY <1>6, <2>1 DEF PayoutRecords
<1>8. ps2 \in [DOMAIN ps2 -> PayoutRecords]
  <2>1. \A q \in DOMAIN ps2 : ps2[q] \in PayoutRecords
    BY <1>6, <1>7 DEF TablesOk
  <2> QED
    BY <1>6, <2>1
<1>9. TablesOk(ss2, ps2)
  BY <1>2, <1>3, <1>4, <1>6, <1>8 DEF TablesOk
<1>10. ASSUME NEW f \in Fields
       PROVE  /\ \A q \in DOMAIN ps2 : SessionSum(ss2, q, f) <= ps2[q].tally[f]
              /\ PayoutSum(ps2, f) <= tot[f]
  <2>1. /\ IsFiniteSet(DOMAIN ss) /\ IsFiniteSet(DOMAIN ps)
        /\ \A q : IsFiniteSet(SessionsOf(ss, q)) /\ SessionsOf(ss, q) \subseteq DOMAIN ss
    BY TablesFinite
  <2>2. IsFiniteSet(DOMAIN ss2) /\ IsFiniteSet(DOMAIN ps2)
    BY <1>9, TablesFinite
  <2> DEFINE A == Column(ss, f)
             B == Column(ss2, f)
             C == Column(ps, f)
             D == Column(ps2, f)
  <2>3. /\ \A i \in DOMAIN ss : A[i] \in Nat /\ B[i] = A[i]
        /\ B[s] = 0
    <3>1. \A i \in DOMAIN ss : A[i] \in Nat /\ A[i] = ss[i].tally[f]
      BY ColumnTyped
    <3>2. \A i \in DOMAIN ss2 : B[i] = ss2[i].tally[f]
      BY <1>9, ColumnTyped
    <3>3. ss2[s].tally[f] = 0
      BY <1>1, <1>2, <1>3
    <3> QED
      BY <1>3, <3>1, <3>2, <3>3
  <2>4. /\ \A q \in DOMAIN ps : C[q] \in Nat /\ C[q] = ps[q].tally[f] /\ D[q] = C[q]
        /\ \A q \in DOMAIN ps2 : D[q] = ps2[q].tally[f]
        /\ p \notin DOMAIN ps => D[p] = 0
    <3>1. \A q \in DOMAIN ps : C[q] \in Nat /\ C[q] = ps[q].tally[f]
      BY ColumnTyped
    <3>2. \A q \in DOMAIN ps2 : D[q] = ps2[q].tally[f]
      BY <1>9, ColumnTyped
    <3>3. Plus(old, NoShares)[f] = old[f]
      BY <1>1, <1>5
    <3>4. ps2[p].tally[f] = old[f]
      BY <1>7, <3>3
    <3>5. p \in DOMAIN ps => old = ps[p].tally
      OBVIOUS
    <3>6. p \notin DOMAIN ps => old[f] = 0
      BY <1>1
    <3> HIDE DEF old, C, D
    <3>7. p \in DOMAIN ps => D[p] = C[p]
      BY <1>6, <3>1, <3>2, <3>4, <3>5
    <3> QED
      BY <1>6, <3>1, <3>2, <3>4, <3>6, <3>7
  <2>5. ASSUME NEW q \in DOMAIN ps2
        PROVE  SessionSum(ss2, q, f) <= ps2[q].tally[f]
    <3> DEFINE S == SessionsOf(ss, q)
               T == SessionsOf(ss2, q)
    <3>1. S \subseteq DOMAIN ss /\ IsFiniteSet(S) /\ s \notin S
      BY <2>1
    <3>2. T = IF q = p THEN S \cup {s} ELSE S
      BY <1>2, <1>3 DEF SessionsOf
    <3>3. SessionSum(ss, q, f) = SumOver(A, S) /\ SessionSum(ss2, q, f) = SumOver(B, T)
      BY <2>1, <2>2, SessionSumIs
    <3>4. q \notin DOMAIN ps => S = {}
      BY DEF TablesOk, SessionsOf
    <3> HIDE DEF S, T, A, B, C, D
    <3>5. \A i \in S : A[i] \in Nat /\ B[i] \in Nat /\ B[i] = A[i]
      BY <2>3, <3>1
    <3>6. SumOver(B, S) = SumOver(A, S) /\ SumOver(B, S) \in Nat
      BY <3>1, <3>5, SumAgree, SumNat
    <3>7. SumOver(B, S \cup {s}) = SumOver(B, S) + B[s]
      BY <2>3, <3>1, <3>5, SumAdd
    <3>8. SumOver(B, T) = SumOver(A, S)
      BY <2>3, <3>2, <3>6, <3>7
    <3>9. CASE q \in DOMAIN ps
      <4>1. SessionSum(ss, q, f) <= ps[q].tally[f]
        BY <3>9 DEF Nested
      <4>2. ps2[q].tally[f] = ps[q].tally[f]
        BY <2>4, <3>9
      <4> QED
        BY <3>3, <3>8, <4>1, <4>2
    <3>10. CASE q \notin DOMAIN ps
      <4>1. q = p /\ ps2[q].tally[f] = 0
        BY <1>6, <2>4, <3>10
      <4>2. SumOver(A, S) = 0
        BY <3>4, <3>10, SumEmpty
      <4> QED
        BY <3>3, <3>8, <4>1, <4>2
    <3> QED
      BY <3>9, <3>10
  <2>6. PayoutSum(ps2, f) <= tot[f]
    <3> DEFINE S == DOMAIN ps
    <3>1. PayoutSum(ps, f) = SumOver(C, S) /\ PayoutSum(ps2, f) = SumOver(D, DOMAIN ps2)
      BY <2>1, <2>2, PayoutSumIs
    <3>2. PayoutSum(ps, f) <= tot[f]
      BY DEF Nested
    <3>3. IsFiniteSet(S) /\ \A q \in S : C[q] \in Nat /\ D[q] \in Nat /\ D[q] = C[q]
      BY <2>1, <2>4
    <3> HIDE DEF A, B, C, D
    <3>4. SumOver(D, S) = SumOver(C, S) /\ SumOver(D, S) \in Nat
      BY <3>3, SumAgree, SumNat
    <3>5. CASE p \in S
      <4>1. DOMAIN ps2 = S
        BY <1>6, <3>5
      <4> QED
        BY <3>1, <3>2, <3>4, <4>1
    <3>6. CASE p \notin S
      <4>1. DOMAIN ps2 = S \cup {p} /\ D[p] = 0
        BY <1>6, <2>4, <3>6
      <4> HIDE DEF S
      <4>2. SumOver(D, S \cup {p}) = SumOver(D, S) + D[p]
        BY <3>3, <3>6, <4>1, SumAdd
      <4> QED
        BY <3>1, <3>2, <3>4, <4>1, <4>2
    <3> QED
      BY <3>5, <3>6
  <2> QED
    BY <2>5, <2>6
<1> QED
  BY <1>9, <1>10 DEF Nested

-----------------------------------------------------------------------------
(* Who holds a session.                                                    *)

(* A thread between register_session and the drop of its session guard.    *)
Live(t) == t.pc \notin {"free", "hello", "register", "release"}

(* A thread with a session id.                                             *)
Holds(t) == Live(t) \/ t.pc = "register"

(* Session ids are given out once, in order; a thread about to register    *)
(* has no record yet; a live one has a connected record and a label, and   *)
(* nothing but a live thread keeps a record connected.                     *)
HoldersOk(ths, ss, ps, next) ==
    /\ \A s \in DOMAIN ss : s < next
    /\ \A c \in Conns : Holds(ths[c]) =>
          /\ ths[c].session \in 1..MaxSessions /\ ths[c].session < next
          /\ ths[c].payout \in Payouts
    /\ \A c, d \in Conns :
          c # d /\ Holds(ths[c]) /\ Holds(ths[d]) => ths[c].session # ths[d].session
    /\ \A c \in Conns : ths[c].pc = "register" => ths[c].session \notin DOMAIN ss
    /\ \A c \in Conns : Live(ths[c]) =>
          /\ ths[c].session \in DOMAIN ss /\ ss[ths[c].session].connected
          /\ ss[ths[c].session].payout = ths[c].payout /\ ths[c].payout \in DOMAIN ps
    /\ \A s \in DOMAIN ss : ss[s].connected =>
          \E c \in Conns : Live(ths[c]) /\ ths[c].session = s

(* The tables, their limits, and who holds what.                           *)
LedgerInv ==
    /\ TablesOk(sessions, payouts) /\ Nested(sessions, payouts, totals)
    /\ Cardinality(DOMAIN sessions) <= MaxLedgerSessions
    /\ Cardinality(DOMAIN payouts) <= MaxLedgerPayouts
    /\ HoldersOk(th, sessions, payouts, next_session_id)
    /\ Cardinality(Busy) <= MaxConnections
    /\ node_tip <= MaxTip /\ stop \in BOOLEAN

(* The thread holds what it held.                                          *)
SameHolder(t, u) ==
    /\ Live(t) <=> Live(u)
    /\ t.pc = "register" <=> u.pc = "register"
    /\ Holds(t) => u.session = t.session /\ u.payout = t.payout

(* Steps that change neither the holders nor who is connected.             *)
LEMMA HoldersKept ==
  ASSUME NEW ths, NEW ths2, NEW ss, NEW ss2, NEW ps, NEW ps2, NEW next,
         HoldersOk(ths, ss, ps, next),
         \A c \in Conns : SameHolder(ths[c], ths2[c]),
         DOMAIN ss2 = DOMAIN ss, DOMAIN ps \subseteq DOMAIN ps2,
         \A s \in DOMAIN ss : /\ ss2[s].connected = ss[s].connected
                              /\ ss2[s].payout = ss[s].payout
  PROVE  HoldersOk(ths2, ss2, ps2, next)
<1>1. \A c \in Conns : /\ Live(ths2[c]) <=> Live(ths[c])
                       /\ Holds(ths2[c]) <=> Holds(ths[c])
                       /\ ths2[c].pc = "register" <=> ths[c].pc = "register"
                       /\ Live(ths[c]) => Holds(ths[c])
                       /\ ths[c].pc = "register" => Holds(ths[c])
                       /\ Holds(ths[c]) => /\ ths2[c].session = ths[c].session
                                           /\ ths2[c].payout = ths[c].payout
  BY DEF SameHolder, Holds
<1>2. \A s \in DOMAIN ss2 : s < next
  BY DEF HoldersOk
<1>3. \A c \in Conns : Holds(ths2[c]) =>
          /\ ths2[c].session \in 1..MaxSessions /\ ths2[c].session < next
          /\ ths2[c].payout \in Payouts
  BY <1>1 DEF HoldersOk
<1>4. \A c, d \in Conns :
        c # d /\ Holds(ths2[c]) /\ Holds(ths2[d]) => ths2[c].session # ths2[d].session
  BY <1>1 DEF HoldersOk
<1>5. \A c \in Conns : ths2[c].pc = "register" => ths2[c].session \notin DOMAIN ss2
  BY <1>1 DEF HoldersOk
<1>6. \A c \in Conns : Live(ths2[c]) =>
          /\ ths2[c].session \in DOMAIN ss2 /\ ss2[ths2[c].session].connected
          /\ ss2[ths2[c].session].payout = ths2[c].payout /\ ths2[c].payout \in DOMAIN ps2
  BY <1>1 DEF HoldersOk
<1>7. \A s \in DOMAIN ss2 : ss2[s].connected =>
          \E c \in Conns : Live(ths2[c]) /\ ths2[c].session = s
  BY <1>1 DEF HoldersOk
<1> QED
  BY <1>2, <1>3, <1>4, <1>5, <1>6, <1>7 DEF HoldersOk

(* A step of one thread.                                                   *)
LEMMA OneHolder ==
  ASSUME Inv, Inv', NEW c \in Conns, \A d \in Conns : d # c => th'[d] = th[d]
  PROVE  /\ th[c] \in Threads /\ th'[c] \in Threads
         /\ SameHolder(th[c], th'[c]) => \A d \in Conns : SameHolder(th[d], th'[d])
<1>1. th \in [Conns -> Threads] /\ th' \in [Conns -> Threads]
  BY DEF Inv, ThreadsInv
<1>2. \A d \in Conns : d # c => SameHolder(th[d], th'[d])
  BY DEF SameHolder
<1> QED
  BY <1>1, <1>2

(* A session step that moves no credit.                                    *)
QuietStep(c) ==
    \/ Greet(c) \/ LoopTop(c) \/ RotateBefore(c) \/ ReadBefore(c) \/ Process(c)
    \/ SubmitStale(c) \/ SubmitRefused(c) \/ SubmitBlockFails(c) \/ RotateAfter(c)
    \/ Answer(c) \/ SessionFails(c) \/ SessionStops(c)
    \/ \E j \in 1..current, n \in Nonces : ReadShare(c, j, n)

(* What handle_connection leaves to the session guard is its session.      *)
LEMMA UnwindKeeps ==
  ASSUME NEW c \in Conns, th \in [Conns -> Threads], Unwind(c), Live(th[c])
  PROVE  SameHolder(th[c], th'[c])
<1>1. /\ th'[c].pc = "drop" /\ th'[c].session = th[c].session
      /\ th'[c].payout = th[c].payout
  BY DEF Unwind, Free
<1> QED
  BY <1>1 DEF SameHolder, Live, Holds

(* In a session a thread keeps its session id and label.                   *)
LEMMA SessionKeeps ==
  ASSUME Inv, NEW c \in Conns, QuietStep(c) \/ SubmitAccepted(c) \/ Reject(c)
  PROVE  Live(th[c]) /\ SameHolder(th[c], th'[c])
<1>1. th \in [Conns -> Threads] /\ th[c] \in Threads
  BY DEF Inv, ThreadsInv
<1>2. CASE SessionFails(c) \/ SessionStops(c) \/ SubmitBlockFails(c)
  <2>1. Unwind(c) /\ Live(th[c])
    BY <1>2 DEF SessionFails, SessionStops, SeesStop, SubmitBlockFails, Reserves,
                SubmitsToTip, Live
  <2> QED
    BY <1>1, <2>1, UnwindKeeps
<1>3. ASSUME NEW j \in 1..current, NEW n \in Nonces, ReadShare(c, j, n)
      PROVE  Live(th[c]) /\ SameHolder(th[c], th'[c])
  <2>1. Live(th[c]) /\ th[c].pc = "read"
    BY <1>3 DEF ReadShare, Live
  <2>2. CASE Unwind(c)
    BY <1>1, <2>1, <2>2, UnwindKeeps
  <2>3. CASE th' = [th EXCEPT ![c].pc = "rotate", ![c].count = @ + 1,
                              ![c].job = j, ![c].nonce = n]
    <3>1. /\ th'[c].pc = "rotate" /\ th'[c].session = th[c].session
          /\ th'[c].payout = th[c].payout
      BY <1>1, <2>3 DEF Threads
    <3> QED
      BY <2>1, <3>1 DEF SameHolder, Live, Holds
  <2> QED
    BY <1>3, <2>1, <2>2, <2>3 DEF ReadShare
<1>4. ASSUME Live(th[c]), Live(th'[c]), th'[c].session = th[c].session,
             th'[c].payout = th[c].payout
      PROVE  SameHolder(th[c], th'[c])
  BY <1>4 DEF SameHolder, Live, Holds
<1>5. CASE Greet(c) \/ LoopTop(c) \/ RotateBefore(c) \/ ReadBefore(c)
  <2>1. /\ th[c].pc \in {"greet", "loop", "rotate", "before"}
        /\ th'[c].pc \in {"loop", "read", "before", "process"}
        /\ th'[c].session = th[c].session /\ th'[c].payout = th[c].payout
    BY <1>1, <1>5 DEF Greet, LoopTop, RotateBefore, ReadBefore, Goto, Threads
  <2> QED
    BY <1>4, <2>1 DEF Live
<1>6. CASE Process(c) \/ SubmitStale(c) \/ SubmitRefused(c) \/ SubmitAccepted(c)
  <2>1. /\ th[c].pc \in {"process", "submit"}
        /\ th'[c].pc \in {"submit", "reject", "rotateStale", "rotateBlock", "answer"}
        /\ th'[c].session = th[c].session /\ th'[c].payout = th[c].payout
    BY <1>1, <1>6 DEF Process, SubmitStale, SubmitRefused, SubmitAccepted, Reserves,
                      SubmitsToTip, Goto, Threads
  <2> QED
    BY <1>4, <2>1 DEF Live
<1>7. CASE RotateAfter(c) \/ Reject(c)
  <2>1. /\ th[c].pc \in {"rotateStale", "rotateBlock", "reject"}
        /\ th'[c].pc \in {"reject", "answer"}
        /\ th'[c].session = th[c].session /\ th'[c].payout = th[c].payout
    BY <1>1, <1>7 DEF RotateAfter, Reject, Goto, Threads
  <2> QED
    BY <1>4, <2>1 DEF Live
<1>8. CASE Answer(c)
  <2> DEFINE k == IF Announces(c) THEN current ELSE th[c].known
  <2>1. th' = [th EXCEPT ![c] = [th[c] EXCEPT !.pc = "loop", !.job = 0, !.nonce = NoPayout,
                                              !.before = 0, !.stale = FALSE, !.known = k]]
    BY <1>8 DEF Answer
  <2> HIDE DEF k
  <2>2. /\ th[c].pc = "answer" /\ th'[c].pc = "loop"
        /\ th'[c].session = th[c].session /\ th'[c].payout = th[c].payout
    BY <1>1, <1>8, <2>1 DEF Answer, Threads
  <2> QED
    BY <1>4, <2>2 DEF Live
<1> QED
  BY <1>2, <1>3, <1>5, <1>6, <1>7, <1>8 DEF QuietStep

-----------------------------------------------------------------------------
(* There is always room for a session that registers.                      *)

(* Threads and records are finitely many.                                  *)
LEMMA PoolFinite ==
  ASSUME LedgerInv
  PROVE  /\ IsFiniteSet(Busy) /\ Cardinality(Busy) \in Nat
         /\ IsFiniteSet(DOMAIN sessions) /\ Cardinality(DOMAIN sessions) \in Nat
         /\ IsFiniteSet(DOMAIN payouts) /\ Cardinality(DOMAIN payouts) \in Nat
<1>1. IsFiniteSet(Busy)
  <2>1. Busy \in SUBSET Conns /\ IsFiniteSet(Conns)
    BY PoolAssumption DEF Busy
  <2> QED
    BY <2>1, FS_Subset
<1>2. IsFiniteSet(DOMAIN sessions) /\ IsFiniteSet(DOMAIN payouts)
  BY TablesFinite DEF LedgerInv
<1> QED
  BY <1>1, <1>2, FS_CardinalityType

(* A thread that registers is not live, so fewer sessions are live than    *)
(* the server takes connections: a full table has an inactive record.      *)
LEMMA RoomForSession ==
  ASSUME Inv, LedgerInv, NEW c \in Conns, th[c].pc = "register"
  PROVE  SessionCapacity
<1> SUFFICES ASSUME SessionsFull, Inactive = {} PROVE FALSE
  BY DEF SessionCapacity
<1> DEFINE S == {d \in Conns : Live(th[d])}
           own == [d \in S |-> th[d].session]
<1>1. S \in SUBSET (Busy \ {c}) /\ c \in Busy
  BY DEF Live, Busy
<1>2. /\ IsFiniteSet(Busy \ {c}) /\ Cardinality(Busy \ {c}) = Cardinality(Busy) - 1
      /\ Cardinality(Busy) \in Nat
  BY <1>1, PoolFinite, FS_RemoveElement
<1>3. IsFiniteSet(S) /\ Cardinality(S) <= Cardinality(Busy) - 1 /\ Cardinality(S) \in Nat
  <2> HIDE DEF S
  <2> QED
    BY <1>1, <1>2, FS_Subset, FS_CardinalityType
<1>4. own \in Surjection(S, DOMAIN sessions)
  <2>1. own \in [S -> DOMAIN sessions]
    BY DEF LedgerInv, HoldersOk
  <2>2. ASSUME NEW s \in DOMAIN sessions PROVE \E d \in S : own[d] = s
    <3>1. sessions[s].connected
      BY <2>2 DEF Inactive
    <3>2. PICK d \in Conns : Live(th[d]) /\ th[d].session = s
      BY <3>1 DEF LedgerInv, HoldersOk
    <3> QED
      BY <3>2
  <2> HIDE DEF S, own
  <2> QED
    BY <2>1, <2>2 DEF Surjection
<1> HIDE DEF S, own
<1>5. Cardinality(DOMAIN sessions) <= Cardinality(S)
  BY <1>3, <1>4, FS_Surjection
<1>6. /\ Cardinality(DOMAIN sessions) >= MaxLedgerSessions
      /\ Cardinality(Busy) <= MaxConnections
      /\ Cardinality(DOMAIN sessions) \in Nat
      /\ MaxConnections \in Nat /\ MaxLedgerSessions \in Nat
      /\ MaxConnections <= MaxLedgerSessions
  BY PoolFinite, PoolAssumption DEF SessionsFull, LedgerInv
<1> QED
  BY <1>2, <1>3, <1>5, <1>6

(* Making room takes one inactive record, and leaves room.                 *)
LEMMA PrunedFacts ==
  ASSUME Inv, LedgerInv, SessionCapacity
  PROVE  /\ \E K \in SUBSET DOMAIN sessions :
                /\ PrunedSessions = Restrict(sessions, K)
                /\ \A s \in DOMAIN sessions : s \notin K => ~sessions[s].connected
         /\ DOMAIN PrunedSessions \subseteq DOMAIN sessions
         /\ \A s \in DOMAIN PrunedSessions : PrunedSessions[s] = sessions[s]
         /\ IsFiniteSet(DOMAIN PrunedSessions)
         /\ Cardinality(DOMAIN PrunedSessions) \in Nat
         /\ Cardinality(DOMAIN PrunedSessions) < MaxLedgerSessions
<1> DEFINE n == Cardinality(DOMAIN sessions)
<1>1. /\ IsFiniteSet(DOMAIN sessions) /\ n \in Nat /\ n <= MaxLedgerSessions
      /\ MaxLedgerSessions \in Nat
  BY PoolFinite, PoolAssumption DEF LedgerInv
<1>2. CASE ~SessionsFull
  <2>1. PrunedSessions = sessions
    BY <1>2 DEF PrunedSessions
  <2>2. sessions = Restrict(sessions, DOMAIN sessions)
    BY DEF LedgerInv, TablesOk, Restrict
  <2>3. n < MaxLedgerSessions
    BY <1>1, <1>2 DEF SessionsFull
  <2> QED
    BY <1>1, <2>1, <2>2, <2>3
<1>3. CASE SessionsFull
  <2>1. Inactive # {} /\ Inactive \subseteq Nat /\ Inactive \subseteq DOMAIN sessions
    BY <1>3 DEF SessionCapacity, Inactive, LedgerInv, TablesOk
  <2>2. Min(Inactive) \in Inactive
    BY <2>1, LeastElement DEF Min
  <2> DEFINE m == Min(Inactive)
             K == DOMAIN sessions \ {m}
  <2>3. PrunedSessions = Restrict(sessions, K)
    BY <1>3 DEF PrunedSessions
  <2>4. m \in DOMAIN sessions /\ ~sessions[m].connected
    BY <2>2 DEF Inactive
  <2> HIDE DEF m
  <2>5. IsFiniteSet(K) /\ Cardinality(K) = n - 1 /\ Cardinality(K) \in Nat
    BY <1>1, <2>4, FS_RemoveElement, FS_CardinalityType
  <2>6. DOMAIN PrunedSessions = K /\ \A s \in K : PrunedSessions[s] = sessions[s]
    BY <2>3 DEF Restrict
  <2>7. \E L \in SUBSET DOMAIN sessions :
           /\ PrunedSessions = Restrict(sessions, L)
           /\ \A s \in DOMAIN sessions : s \notin L => ~sessions[s].connected
    BY <2>3, <2>4
  <2> QED
    BY <1>1, <2>5, <2>6, <2>7
<1> QED
  BY <1>2, <1>3

(* More labels than sessions leave a label that no session names.          *)
LEMMA RoomForPayout ==
  ASSUME Inv, LedgerInv, SessionCapacity, NEW p
  PROVE  PayoutCapacity(p)
<1> SUFFICES ASSUME PayoutsFull(p), Unreferenced(PrunedSessions) = {} PROVE FALSE
  BY DEF PayoutCapacity
<1> DEFINE S == DOMAIN PrunedSessions
           label == [s \in S |-> PrunedSessions[s].payout]
<1>1. /\ S \subseteq DOMAIN sessions /\ \A s \in S : PrunedSessions[s] = sessions[s]
      /\ IsFiniteSet(S) /\ Cardinality(S) \in Nat /\ Cardinality(S) < MaxLedgerSessions
  BY PrunedFacts
<1>2. label \in [S -> DOMAIN payouts]
  BY <1>1 DEF LedgerInv, TablesOk
<1>3. \A q \in DOMAIN payouts : \E s \in S : label[s] = q
  BY DEF Unreferenced
<1> HIDE DEF S, label
<1>4. label \in Surjection(S, DOMAIN payouts)
  BY <1>2, <1>3 DEF Surjection
<1>5. Cardinality(DOMAIN payouts) <= Cardinality(S)
  BY <1>1, <1>4, FS_Surjection
<1>6. /\ Cardinality(DOMAIN payouts) >= MaxLedgerPayouts /\ Cardinality(DOMAIN payouts) \in Nat
      /\ MaxLedgerPayouts \in Nat /\ MaxLedgerSessions \in Nat
      /\ MaxLedgerSessions <= MaxLedgerPayouts
  BY PoolFinite, PoolAssumption DEF PayoutsFull
<1> QED
  BY <1>1, <1>5, <1>6

(* Making room for a label takes one that no session names.                *)
LEMMA PrunedLabels ==
  ASSUME LedgerInv, NEW ss, NEW p, PayoutsFull(p) => Unreferenced(ss) # {},
         \A s \in DOMAIN ss : ss[s].payout \in DOMAIN payouts
  PROVE  \E K \in SUBSET DOMAIN payouts :
            /\ PrunedPayouts(p, ss) = Restrict(payouts, K)
            /\ \A s \in DOMAIN ss : ss[s].payout \in K
            /\ IsFiniteSet(K) /\ Cardinality(K \cup {p}) <= MaxLedgerPayouts
<1> DEFINE n == Cardinality(DOMAIN payouts)
<1>1. /\ IsFiniteSet(DOMAIN payouts) /\ n \in Nat /\ n <= MaxLedgerPayouts
      /\ MaxLedgerPayouts \in Nat
  BY PoolFinite, PoolAssumption DEF LedgerInv
<1>2. CASE ~PayoutsFull(p)
  <2>1. PrunedPayouts(p, ss) = payouts
    BY <1>2 DEF PrunedPayouts
  <2>2. payouts = Restrict(payouts, DOMAIN payouts)
    BY DEF LedgerInv, TablesOk, Restrict
  <2>3. Cardinality(DOMAIN payouts \cup {p}) <= MaxLedgerPayouts
    <3>1. Cardinality(DOMAIN payouts \cup {p}) = IF p \in DOMAIN payouts THEN n ELSE n + 1
      BY <1>1, FS_AddElement
    <3> QED
      BY <1>1, <1>2, <3>1 DEF PayoutsFull
  <2> QED
    BY <1>1, <2>1, <2>2, <2>3
<1>3. CASE PayoutsFull(p)
  <2> DEFINE U == Unreferenced(ss)
             L == {payouts[q].last : q \in U}
             oldest == CHOOSE q \in U : \A r \in U : payouts[q].last <= payouts[r].last
             K == DOMAIN payouts \ {oldest}
  <2>1. U # {} /\ U \subseteq DOMAIN payouts /\ \A q \in U, s \in DOMAIN ss : ss[s].payout # q
    BY <1>3 DEF Unreferenced
  <2>2. oldest \in U
    <3>1. \A q \in DOMAIN payouts : payouts[q].last \in Nat
      BY DEF LedgerInv, TablesOk, PayoutRecords
    <3> HIDE DEF U
    <3>2. L # {} /\ L \subseteq Nat
      BY <2>1, <3>1
    <3>3. \E m \in L : \A k \in L : m <= k
      <4> HIDE DEF L
      <4> QED
        BY <3>2, LeastElement
    <3>4. \E q \in U : \A r \in U : payouts[q].last <= payouts[r].last
      BY <3>3
    <3> QED
      BY <3>4
  <2>3. PrunedPayouts(p, ss) = Restrict(payouts, K)
    BY <1>3 DEF PrunedPayouts
  <2> HIDE DEF oldest, U
  <2>4. oldest \in DOMAIN payouts /\ \A s \in DOMAIN ss : ss[s].payout # oldest
    BY <2>1, <2>2
  <2>5. IsFiniteSet(K) /\ Cardinality(K) = n - 1
    BY <1>1, <2>4, FS_RemoveElement
  <2>6. Cardinality(K \cup {p}) <= MaxLedgerPayouts
    <3>1. p \notin K
      BY <1>3 DEF PayoutsFull
    <3> HIDE DEF K
    <3>2. Cardinality(K \cup {p}) = Cardinality(K) + 1
      BY <2>5, <3>1, FS_AddElement
    <3> QED
      BY <1>1, <2>5, <3>2
  <2> QED
    BY <2>3, <2>4, <2>5, <2>6
<1> QED
  BY <1>2, <1>3

-----------------------------------------------------------------------------
(* Every step keeps the ledger in order.                                   *)

(* No more connections than before.                                        *)
LEMMA BusyKept ==
  ASSUME LedgerInv, \A d \in Conns : th[d].pc = "free" => th'[d].pc = "free"
  PROVE  Cardinality(Busy') <= MaxConnections
<1>1. Busy' \in SUBSET Busy
  BY DEF Busy
<1>2. Cardinality(Busy') <= Cardinality(Busy) /\ Cardinality(Busy') \in Nat
  BY <1>1, PoolFinite, FS_Subset, FS_CardinalityType
<1>3. Cardinality(Busy) <= MaxConnections /\ Cardinality(Busy) \in Nat /\ MaxConnections \in Nat
  BY PoolFinite, PoolAssumption DEF LedgerInv
<1> QED
  BY <1>2, <1>3

(* Steps of a session that leave the ledger alone.                         *)
LEMMA QuietLedger ==
  ASSUME Inv, Inv', LedgerInv, NEW c \in Conns, QuietStep(c),
         \A d \in Conns : d # c => th'[d] = th[d]
  PROVE  LedgerInv'
<1>1. UNCHANGED <<totals, sessions, payouts, next_session_id, node_tip, stop>>
  BY DEF QuietStep, Greet, LoopTop, RotateBefore, ReadBefore, Process, SubmitStale,
         SubmitRefused, SubmitBlockFails, RotateAfter, Answer, SessionFails,
         SessionStops, ReadShare, ledger
<1>2. Live(th[c]) /\ SameHolder(th[c], th'[c])
  BY SessionKeeps
<1>3. \A d \in Conns : SameHolder(th[d], th'[d])
  BY <1>2, OneHolder
<1>4. HoldersOk(th', sessions, payouts, next_session_id)
  BY <1>3, HoldersKept DEF LedgerInv
<1>5. Cardinality(Busy') <= MaxConnections
  <2>1. \A d \in Conns : th[d].pc = "free" => th'[d].pc = "free"
    BY <1>2 DEF Live
  <2> QED
    BY <2>1, BusyKept
<1> QED
  BY <1>1, <1>4, <1>5 DEF LedgerInv

(* record_share, for an accepted share and for a refused one.              *)
LEMMA CreditLedger ==
  ASSUME Inv, Inv', LedgerInv, NEW c \in Conns, SubmitAccepted(c) \/ Reject(c),
         \A d \in Conns : d # c => th'[d] = th[d]
  PROVE  LedgerInv'
<1> DEFINE s == th[c].session
<1>1. Live(th[c]) /\ SameHolder(th[c], th'[c])
  BY SessionKeeps
<1>2. /\ s \in DOMAIN sessions /\ TablesOk(sessions, payouts)
      /\ Nested(sessions, payouts, totals) /\ totals \in Tallies
      /\ sessions[s].payout \in DOMAIN payouts
  BY <1>1 DEF LedgerInv, HoldersOk, TablesOk, Inv, CreditsInv
<1>3. PICK d \in Tallies : Credit(c, d)
  <2>1. Rejected \in Tallies /\ Accepted(th[c].nonce) \in Tallies
    BY DEF Rejected, Accepted, NoShares, Tallies
  <2> QED
    BY <2>1 DEF SubmitAccepted, Reject
<1>4. /\ totals' = Plus(totals, d) /\ sessions' = Recorded(sessions, s, d)
      /\ payouts' = Touch(payouts, sessions[s].payout, s, d)
  BY <1>3 DEF Credit, Recorded
<1>5. TablesOk(sessions', payouts') /\ Nested(sessions', payouts', totals')
  BY <1>2, <1>4, CreditNests
<1>6. /\ DOMAIN sessions' = DOMAIN sessions /\ DOMAIN payouts' = DOMAIN payouts
      /\ \A i \in DOMAIN sessions : /\ sessions'[i].connected = sessions[i].connected
                                    /\ sessions'[i].payout = sessions[i].payout
  <2>1. DOMAIN payouts' = DOMAIN payouts
    BY <1>2, <1>4 DEF Touch
  <2>2. \A i \in DOMAIN sessions : sessions[i] \in SessionRecords
    BY <1>2 DEF TablesOk
  <2> QED
    BY <1>2, <1>4, <2>1, <2>2 DEF Recorded, SessionRecords
<1>7. \A e \in Conns : SameHolder(th[e], th'[e])
  BY <1>1, OneHolder
<1>8. HoldersOk(th', sessions', payouts', next_session_id)
  BY <1>6, <1>7, HoldersKept DEF LedgerInv
<1>9. Cardinality(Busy') <= MaxConnections
  <2>1. \A e \in Conns : th[e].pc = "free" => th'[e].pc = "free"
    BY <1>1 DEF Live
  <2> QED
    BY <2>1, BusyKept
<1>10. node_tip' <= MaxTip /\ stop' = stop /\ next_session_id' = next_session_id
  BY PoolAssumption DEF SubmitAccepted, Reject, LedgerInv, Inv, JobsInv
<1> QED
  BY <1>5, <1>6, <1>8, <1>9, <1>10 DEF LedgerInv

(* Connections come, say hello, are refused and go.                        *)
LEMMA ArrivalLedger ==
  ASSUME Inv, Inv', LedgerInv, NEW c \in Conns,
         \/ AcceptConnection(c) \/ HelloRefused(c) \/ ReleaseConnection(c)
         \/ \E p \in Payouts : Hello(c, p),
         \A d \in Conns : d # c => th'[d] = th[d]
  PROVE  LedgerInv'
<1>1. UNCHANGED <<totals, sessions, payouts, node_tip, stop>>
  BY DEF AcceptConnection, HelloRefused, ReleaseConnection, Hello, ledger
<1>2. th \in [Conns -> Threads] /\ th' \in [Conns -> Threads] /\ th[c] \in Threads
  BY DEF Inv, ThreadsInv
<1>3. ASSUME next_session_id' = next_session_id, SameHolder(th[c], th'[c])
      PROVE  HoldersOk(th', sessions', payouts', next_session_id')
  <2>1. \A d \in Conns : SameHolder(th[d], th'[d])
    BY <1>3, OneHolder
  <2>2. HoldersOk(th', sessions, payouts, next_session_id)
    BY <2>1, HoldersKept DEF LedgerInv
  <2> QED
    BY <1>1, <1>3, <2>2
<1>4. ASSUME HoldersOk(th', sessions', payouts', next_session_id'),
             Cardinality(Busy') <= MaxConnections
      PROVE  LedgerInv'
  BY <1>1, <1>4 DEF LedgerInv
<1>5. CASE AcceptConnection(c)
  <2>1. th[c].pc = "free" /\ th'[c].pc = "hello" /\ next_session_id' = next_session_id
    BY <1>2, <1>5 DEF AcceptConnection, Goto
  <2>2. SameHolder(th[c], th'[c])
    BY <2>1 DEF SameHolder, Live, Holds
  <2>3. Busy' = Busy \cup {c} /\ Cardinality(Busy) < MaxConnections
    BY <1>5, <2>1 DEF Busy, AcceptConnection
  <2>4. IsFiniteSet(Busy) /\ Cardinality(Busy) \in Nat
    BY PoolFinite
  <2>5. Cardinality(Busy \cup {c}) = Cardinality(Busy) + 1
    <3>1. c \notin Busy
      BY <2>1 DEF Busy
    <3> QED
      BY <2>4, <3>1, FS_AddElement
  <2>6. Cardinality(Busy') <= MaxConnections
    BY <2>3, <2>4, <2>5, PoolAssumption
  <2> QED
    BY <1>3, <1>4, <2>1, <2>2, <2>6
<1>6. CASE HelloRefused(c) \/ ReleaseConnection(c)
  <2>1. /\ th[c].pc \in {"hello", "release"} /\ th'[c].pc \in {"free", "release"}
        /\ next_session_id' = next_session_id
    BY <1>2, <1>6 DEF HelloRefused, ReleaseConnection, Free
  <2>2. SameHolder(th[c], th'[c])
    BY <2>1 DEF SameHolder, Live, Holds
  <2>3. Cardinality(Busy') <= MaxConnections
    BY <2>1, BusyKept
  <2> QED
    BY <1>3, <1>4, <2>1, <2>2, <2>3
<1>7. ASSUME NEW p \in Payouts, Hello(c, p) PROVE LedgerInv'
  <2> DEFINE id == next_session_id
  <2>1. /\ th[c].pc = "hello" /\ th'[c].pc = "register" /\ th'[c].session = id
        /\ th'[c].payout = p /\ next_session_id' = id + 1 /\ id \in 1..MaxSessions
    <3>1. id \in 1..(MaxSessions + 1) /\ id <= MaxSessions /\ MaxSessions \in Nat
      BY <1>7, PoolAssumption DEF Hello, Inv, ThreadsInv
    <3>2. /\ th[c].pc = "hello" /\ th'[c].pc = "register" /\ th'[c].session = id
          /\ th'[c].payout = p /\ next_session_id' = id + 1
      BY <1>2, <1>7 DEF Hello, Free
    <3>3. id \in 1..MaxSessions
      BY <3>1
    <3> QED
      BY <3>2, <3>3
  <2>2. /\ Holds(th'[c]) /\ ~Live(th'[c]) /\ ~Holds(th[c]) /\ ~Live(th[c])
    BY <2>1 DEF Holds, Live
  <2>3. /\ \A s \in DOMAIN sessions : s < id /\ s \in Nat
        /\ \A d \in Conns : Holds(th[d]) => th[d].session < id /\ th[d].session \in Nat
    <3>1. \A d \in Conns : th[d].session \in Nat
      BY <1>2 DEF Threads
    <3> QED
      BY <3>1 DEF LedgerInv, HoldersOk, TablesOk
  <2> HIDE DEF id
  <2>4. \A s \in DOMAIN sessions : s < id + 1
    BY <2>1, <2>3
  <2>5. \A d \in Conns : Holds(th'[d]) =>
          /\ th'[d].session \in 1..MaxSessions /\ th'[d].session < id + 1
          /\ th'[d].payout \in Payouts
    <3> SUFFICES ASSUME NEW d \in Conns, Holds(th'[d])
                 PROVE  /\ th'[d].session \in 1..MaxSessions /\ th'[d].session < id + 1
                        /\ th'[d].payout \in Payouts
      OBVIOUS
    <3>1. CASE d = c
      BY <2>1, <3>1
    <3>2. CASE d # c
      BY <2>1, <2>3, <3>2 DEF LedgerInv, HoldersOk
    <3> QED
      BY <3>1, <3>2
  <2>6. ASSUME NEW d \in Conns, NEW e \in Conns, d # e, Holds(th'[d]), Holds(th'[e])
        PROVE  th'[d].session # th'[e].session
    <3>1. CASE d # c /\ e # c
      BY <2>6, <3>1 DEF LedgerInv, HoldersOk
    <3>2. CASE d = c
      BY <2>1, <2>3, <2>6, <3>2
    <3>3. CASE e = c
      BY <2>1, <2>3, <2>6, <3>3
    <3> QED
      BY <3>1, <3>2, <3>3
  <2>7. ASSUME NEW d \in Conns, th'[d].pc = "register" PROVE th'[d].session \notin DOMAIN sessions
    <3>1. CASE d = c
      BY <2>1, <2>3, <3>1
    <3>2. CASE d # c
      BY <2>7, <3>2 DEF LedgerInv, HoldersOk
    <3> QED
      BY <3>1, <3>2
  <2>8. ASSUME NEW d \in Conns, Live(th'[d])
        PROVE  d # c /\ th'[d] = th[d]
    BY <2>2, <2>8
  <2>9. \A d \in Conns : Live(th'[d]) =>
          /\ th'[d].session \in DOMAIN sessions /\ sessions[th'[d].session].connected
          /\ sessions[th'[d].session].payout = th'[d].payout
          /\ th'[d].payout \in DOMAIN payouts
    BY <2>8 DEF LedgerInv, HoldersOk
  <2>10. ASSUME NEW s \in DOMAIN sessions, sessions[s].connected
         PROVE  \E d \in Conns : Live(th'[d]) /\ th'[d].session = s
    <3>1. PICK d \in Conns : Live(th[d]) /\ th[d].session = s
      BY <2>10 DEF LedgerInv, HoldersOk
    <3> QED
      BY <2>2, <3>1
  <2>11. HoldersOk(th', sessions, payouts, id + 1)
    BY <2>4, <2>5, <2>6, <2>7, <2>9, <2>10 DEF HoldersOk
  <2>12. HoldersOk(th', sessions', payouts', next_session_id')
    BY <1>1, <2>1, <2>11 DEF id
  <2>13. Cardinality(Busy') <= MaxConnections
    BY <2>1, BusyKept
  <2> QED
    BY <1>4, <2>12, <2>13
<1> QED
  BY <1>5, <1>6, <1>7

(* register_session: the tables stay nested and within their limits, and   *)
(* what is pruned belongs to nobody.                                       *)
LEMMA RegisterLedger ==
  ASSUME Inv, Inv', LedgerInv, NEW c \in Conns, RegisterSession(c),
         \A d \in Conns : d # c => th'[d] = th[d]
  PROVE  LedgerInv'
<1> DEFINE s == th[c].session
           p == th[c].payout
           ss == PrunedSessions
           ps == PrunedPayouts(p, ss)
<1>1. /\ th[c].pc = "register" /\ SessionCapacity /\ PayoutCapacity(p)
      /\ sessions' = Enrolled(ss, s, p) /\ payouts' = Touch(ps, p, s, NoShares)
      /\ UNCHANGED <<node_tip, totals, next_session_id, stop>>
  BY DEF RegisterSession, Enrolled
<1>2. th[c] \in Threads /\ th'[c] = [th[c] EXCEPT !.pc = "greet"]
  BY DEF RegisterSession, Goto, Inv, ThreadsInv
<1>3. th'[c].pc = "greet" /\ th'[c].session = s /\ th'[c].payout = p
  BY <1>2 DEF Threads
<1>4. /\ s \in 1..MaxSessions /\ s < next_session_id /\ p \in Payouts
      /\ s \notin DOMAIN sessions /\ Holds(th[c]) /\ ~Live(th[c]) /\ Live(th'[c]) /\ Holds(th'[c])
  BY <1>1, <1>3 DEF LedgerInv, HoldersOk, Holds, Live
<1>5. /\ DOMAIN ss \subseteq DOMAIN sessions /\ \A i \in DOMAIN ss : ss[i] = sessions[i]
      /\ IsFiniteSet(DOMAIN ss) /\ Cardinality(DOMAIN ss) \in Nat
      /\ Cardinality(DOMAIN ss) < MaxLedgerSessions
  BY <1>1, PrunedFacts
<1>6. PICK K \in SUBSET DOMAIN sessions :
         /\ ss = Restrict(sessions, K)
         /\ \A i \in DOMAIN sessions : i \notin K => ~sessions[i].connected
  BY <1>1, PrunedFacts
<1>7. DOMAIN ss = K
  BY <1>6 DEF Restrict
<1>8. TablesOk(sessions, payouts) /\ Nested(sessions, payouts, totals) /\ totals \in Tallies
  BY DEF LedgerInv, Inv, CreditsInv
<1> HIDE DEF ss
<1>9. TablesOk(ss, payouts) /\ Nested(ss, payouts, totals)
  BY <1>6, <1>8, PruneSessionNests
<1>10. PICK L \in SUBSET DOMAIN payouts :
         /\ ps = Restrict(payouts, L) /\ \A i \in DOMAIN ss : ss[i].payout \in L
         /\ IsFiniteSet(L) /\ Cardinality(L \cup {p}) <= MaxLedgerPayouts
  <2>1. PayoutsFull(p) => Unreferenced(ss) # {}
    BY <1>1 DEF PayoutCapacity, ss
  <2>2. \A i \in DOMAIN ss : ss[i].payout \in DOMAIN payouts
    BY <1>9 DEF TablesOk
  <2> HIDE DEF p
  <2> QED
    BY <2>1, <2>2, PrunedLabels
<1>11. DOMAIN ps = L
  BY <1>10 DEF Restrict
<1> HIDE DEF ps, s, p
<1>12. TablesOk(ss, ps) /\ Nested(ss, ps, totals)
  BY <1>8, <1>9, <1>10, PrunePayoutNests
<1>13. TablesOk(sessions', payouts') /\ Nested(sessions', payouts', totals)
  <2>1. s \notin DOMAIN ss
    BY <1>4, <1>5
  <2> QED
    BY <1>1, <1>4, <1>8, <1>12, <2>1, EnrolNests
<1>14. /\ DOMAIN sessions' = K \cup {s} /\ DOMAIN payouts' = L \cup {p}
       /\ sessions'[s] = [connected |-> TRUE, payout |-> p, tally |-> NoShares]
       /\ \A i \in K : sessions'[i] = sessions[i]
  <2>1. s \notin K
    BY <1>4
  <2> QED
    BY <1>1, <1>5, <1>7, <1>11, <2>1 DEF Enrolled, Touch
<1>15. /\ Cardinality(DOMAIN sessions') <= MaxLedgerSessions
       /\ Cardinality(DOMAIN payouts') <= MaxLedgerPayouts
  <2>1. Cardinality(K \cup {s}) = Cardinality(K) + 1
    BY <1>4, <1>5, <1>7, FS_AddElement
  <2> QED
    BY <1>5, <1>7, <1>10, <1>14, <2>1, PoolAssumption
<1>16. HoldersOk(th', sessions', payouts', next_session_id)
  <2>1. \A i \in DOMAIN sessions' : i < next_session_id
    BY <1>4, <1>14 DEF LedgerInv, HoldersOk
  <2>2. /\ \A d \in Conns : Holds(th'[d]) <=> Holds(th[d])
        /\ \A d \in Conns : /\ th'[d].session = th[d].session
                            /\ th'[d].payout = th[d].payout
        /\ \A d \in Conns : th'[d].pc = "register" => d # c /\ th[d].pc = "register"
        /\ \A d \in Conns : d # c => (Live(th'[d]) <=> Live(th[d]))
    BY <1>3, <1>4 DEF s, p
  <2>3. \A d \in Conns : Holds(th'[d]) =>
          /\ th'[d].session \in 1..MaxSessions /\ th'[d].session < next_session_id
          /\ th'[d].payout \in Payouts
    BY <2>2 DEF LedgerInv, HoldersOk
  <2>4. \A d, e \in Conns :
          d # e /\ Holds(th'[d]) /\ Holds(th'[e]) => th'[d].session # th'[e].session
    BY <2>2 DEF LedgerInv, HoldersOk
  <2>5. ASSUME NEW d \in Conns, th'[d].pc = "register"
        PROVE  th'[d].session \notin DOMAIN sessions'
    <3>1. d # c /\ th[d].pc = "register" /\ th'[d].session = th[d].session
      BY <2>2, <2>5
    <3>2. Holds(th[d]) /\ th[d].session \notin DOMAIN sessions
      BY <3>1 DEF LedgerInv, HoldersOk, Holds
    <3>3. th[d].session # s
      BY <1>4, <3>1, <3>2 DEF LedgerInv, HoldersOk, s
    <3> QED
      BY <1>14, <3>1, <3>2, <3>3
  <2>6. ASSUME NEW d \in Conns, Live(th'[d])
        PROVE  /\ th'[d].session \in DOMAIN sessions' /\ sessions'[th'[d].session].connected
               /\ sessions'[th'[d].session].payout = th'[d].payout
               /\ th'[d].payout \in DOMAIN payouts'
    <3>1. CASE d = c
      <4>1. th'[d].session = s /\ th'[d].payout = p
        BY <1>3, <3>1
      <4> QED
        BY <1>14, <4>1
    <3>2. CASE d # c
      <4>1. Live(th[d]) /\ th'[d] = th[d]
        BY <2>2, <2>6, <3>2
      <4> DEFINE i == th[d].session
      <4>2. /\ i \in DOMAIN sessions /\ sessions[i].connected
            /\ sessions[i].payout = th[d].payout
        BY <4>1 DEF LedgerInv, HoldersOk
      <4>3. i \in K /\ sessions'[i] = sessions[i]
        BY <1>6, <1>14, <4>2
      <4>4. sessions[i].payout \in L
        BY <1>5, <1>7, <1>10, <4>3
      <4> QED
        BY <1>14, <4>1, <4>2, <4>3, <4>4
    <3> QED
      BY <3>1, <3>2
  <2>7. ASSUME NEW i \in DOMAIN sessions', sessions'[i].connected
        PROVE  \E d \in Conns : Live(th'[d]) /\ th'[d].session = i
    <3>1. CASE i = s
      BY <1>3, <1>4, <3>1
    <3>2. CASE i \in K
      <4>1. sessions[i].connected
        BY <1>14, <2>7, <3>2
      <4>2. PICK d \in Conns : Live(th[d]) /\ th[d].session = i
        BY <3>2, <4>1 DEF LedgerInv, HoldersOk
      <4> QED
        BY <1>4, <2>2, <4>2
    <3> QED
      BY <1>14, <3>1, <3>2
  <2> QED
    BY <2>1, <2>3, <2>4, <2>5, <2>6, <2>7 DEF HoldersOk
<1>17. Cardinality(Busy') <= MaxConnections
  BY <1>1, BusyKept
<1> QED
  BY <1>1, <1>13, <1>15, <1>16, <1>17 DEF LedgerInv

(* Tables whose sessions keep their labels and tallies stay nested.        *)
LEMMA DisconnectNests ==
  ASSUME NEW ss, NEW ps, TablesOk(ss, ps), NEW tot, Nested(ss, ps, tot), NEW ss2,
         ss2 \in [DOMAIN ss -> SessionRecords],
         \A i \in DOMAIN ss : ss2[i].payout = ss[i].payout /\ ss2[i].tally = ss[i].tally
  PROVE  TablesOk(ss2, ps) /\ Nested(ss2, ps, tot)
<1>1. DOMAIN ss2 = DOMAIN ss
  OBVIOUS
<1>2. TablesOk(ss2, ps)
  BY <1>1 DEF TablesOk
<1>3. ASSUME NEW f \in Fields, NEW q \in DOMAIN ps
      PROVE  SessionSum(ss2, q, f) <= ps[q].tally[f]
  <2>1. IsFiniteSet(DOMAIN ss) /\ IsFiniteSet(SessionsOf(ss, q))
    BY TablesFinite
  <2>2. SessionsOf(ss2, q) = SessionsOf(ss, q)
    BY <1>1 DEF SessionsOf
  <2>3. \A i \in SessionsOf(ss, q) : Column(ss2, f)[i] = Column(ss, f)[i]
    BY <1>1 DEF Column, SessionsOf
  <2>4. SessionSum(ss, q, f) = SumOver(Column(ss, f), SessionsOf(ss, q))
    BY <2>1, SessionSumIs
  <2>5. SessionSum(ss2, q, f) = SumOver(Column(ss2, f), SessionsOf(ss, q))
    BY <1>1, <2>1, <2>2, SessionSumIs
  <2>6. SumOver(Column(ss2, f), SessionsOf(ss, q)) = SumOver(Column(ss, f), SessionsOf(ss, q))
    BY <2>1, <2>3, SumAgree
  <2> QED
    BY <2>4, <2>5, <2>6 DEF Nested
<1> QED
  BY <1>2, <1>3 DEF Nested

(* The session guard marks its own record and no other.                    *)
LEMMA DropLedger ==
  ASSUME Inv, Inv', LedgerInv, NEW c \in Conns, DropSession(c),
         \A d \in Conns : d # c => th'[d] = th[d]
  PROVE  LedgerInv'
<1> DEFINE s == th[c].session
           r == [sessions[s] EXCEPT !.connected = FALSE]
<1>1. /\ th[c].pc = "drop" /\ sessions' = [sessions EXCEPT ![s] = r]
      /\ UNCHANGED <<node_tip, totals, payouts, next_session_id, stop>>
  BY DEF DropSession
<1>2. th'[c].pc = "release"
  BY DEF DropSession, Inv, ThreadsInv, Free
<1>3. Live(th[c]) /\ Holds(th[c]) /\ ~Live(th'[c]) /\ ~Holds(th'[c])
  BY <1>1, <1>2 DEF Live, Holds
<1>4. /\ s \in DOMAIN sessions /\ sessions \in [DOMAIN sessions -> SessionRecords]
      /\ TablesOk(sessions, payouts) /\ Nested(sessions, payouts, totals)
  BY <1>3 DEF LedgerInv, HoldersOk, TablesOk
<1>5. /\ r \in SessionRecords /\ r.connected = FALSE
      /\ r.payout = sessions[s].payout /\ r.tally = sessions[s].tally
  <2>1. sessions[s] \in SessionRecords
    BY <1>4
  <2> QED
    BY <2>1 DEF SessionRecords
<1> HIDE DEF r
<1>6. /\ sessions' \in [DOMAIN sessions -> SessionRecords] /\ DOMAIN sessions' = DOMAIN sessions
      /\ sessions'[s] = r /\ \A i \in DOMAIN sessions : i # s => sessions'[i] = sessions[i]
  BY <1>1, <1>4, <1>5
<1>7. \A i \in DOMAIN sessions : /\ sessions'[i].payout = sessions[i].payout
                                 /\ sessions'[i].tally = sessions[i].tally
  BY <1>5, <1>6
<1>8. TablesOk(sessions', payouts) /\ Nested(sessions', payouts, totals)
  BY <1>4, <1>6, <1>7, DisconnectNests
<1>9. \A d \in Conns : Holds(th'[d]) => d # c /\ th'[d] = th[d]
  BY <1>3
<1>10. \A d \in Conns : /\ Live(th'[d]) => Holds(th'[d])
                        /\ th'[d].pc = "register" => Holds(th'[d])
                        /\ Live(th[d]) => Holds(th[d])
  BY DEF Holds
<1>11. ASSUME NEW d \in Conns, Live(th'[d])
       PROVE  /\ th'[d].session \in DOMAIN sessions' /\ sessions'[th'[d].session].connected
              /\ sessions'[th'[d].session].payout = th'[d].payout
              /\ th'[d].payout \in DOMAIN payouts
  <2>1. d # c /\ th'[d] = th[d] /\ Holds(th[d]) /\ Live(th[d])
    BY <1>9, <1>10, <1>11
  <2>2. /\ th[d].session \in DOMAIN sessions /\ sessions[th[d].session].connected
        /\ sessions[th[d].session].payout = th[d].payout /\ th[d].payout \in DOMAIN payouts
        /\ th[d].session # s
    BY <1>3, <2>1 DEF LedgerInv, HoldersOk
  <2> QED
    BY <1>6, <2>1, <2>2
<1>12. ASSUME NEW i \in DOMAIN sessions', sessions'[i].connected
       PROVE  \E d \in Conns : Live(th'[d]) /\ th'[d].session = i
  <2>1. i # s /\ i \in DOMAIN sessions /\ sessions[i].connected
    BY <1>5, <1>6, <1>12
  <2>2. PICK d \in Conns : Live(th[d]) /\ th[d].session = i
    BY <2>1 DEF LedgerInv, HoldersOk
  <2>3. d # c
    BY <2>1, <2>2
  <2> QED
    BY <2>2, <2>3
<1>13. HoldersOk(th', sessions', payouts, next_session_id)
  <2>1. \A d \in Conns : Holds(th'[d]) =>
          /\ th'[d].session \in 1..MaxSessions /\ th'[d].session < next_session_id
          /\ th'[d].payout \in Payouts
    BY <1>9 DEF LedgerInv, HoldersOk
  <2>2. \A d, e \in Conns :
          d # e /\ Holds(th'[d]) /\ Holds(th'[e]) => th'[d].session # th'[e].session
    BY <1>9 DEF LedgerInv, HoldersOk
  <2>3. \A d \in Conns : th'[d].pc = "register" => th'[d].session \notin DOMAIN sessions'
    BY <1>6, <1>9, <1>10 DEF LedgerInv, HoldersOk
  <2>4. \A i \in DOMAIN sessions' : i < next_session_id
    BY <1>6 DEF LedgerInv, HoldersOk
  <2> QED
    BY <1>11, <1>12, <2>1, <2>2, <2>3, <2>4 DEF HoldersOk
<1>14. Cardinality(Busy') <= MaxConnections
  BY <1>1, BusyKept
<1> QED
  BY <1>1, <1>6, <1>8, <1>13, <1>14 DEF LedgerInv

(* Steps outside the threads touch neither the ledger nor a thread.        *)
LEMMA OutsideLedger ==
  ASSUME Inv, LedgerInv, ListenerRotates \/ PeerBlock \/ StopServer \/ UNCHANGED vars
  PROVE  LedgerInv'
<1>1. UNCHANGED <<totals, sessions, payouts, next_session_id, th>>
  BY DEF ListenerRotates, PeerBlock, StopServer, vars, ledger
<1>2. node_tip' <= MaxTip /\ stop' \in BOOLEAN
  <2>1. node_tip \in Nat /\ MaxTip \in Nat /\ node_tip <= MaxTip /\ stop \in BOOLEAN
    BY PoolAssumption DEF Inv, JobsInv, LedgerInv
  <2>2. node_tip' <= MaxTip
    BY <2>1 DEF ListenerRotates, PeerBlock, StopServer, vars
  <2>3. stop' = stop \/ stop' = TRUE
    BY DEF ListenerRotates, PeerBlock, StopServer, vars
  <2> QED
    BY <2>1, <2>2, <2>3
<1>3. Busy' = Busy
  BY <1>1 DEF Busy
<1> QED
  BY <1>1, <1>2, <1>3 DEF LedgerInv

(* A fresh ledger is empty.                                                *)
LEMMA InitLedger == Init => LedgerInv
<1> SUFFICES ASSUME Init PROVE LedgerInv
  OBVIOUS
<1>1. /\ DOMAIN sessions = {} /\ DOMAIN payouts = {} /\ totals = NoShares
      /\ sessions = [s \in {} |-> sessions[s]] /\ payouts = [s \in {} |-> payouts[s]]
  BY DEF Init
<1>2. IsFiniteSet({}) /\ Cardinality({}) = 0
  BY FS_EmptySet
<1>3. TablesOk(sessions, payouts)
  BY <1>1 DEF TablesOk
<1>4. ASSUME NEW f \in Fields PROVE PayoutSum(payouts, f) <= totals[f]
  <2>1. PayoutSum(payouts, f) = SumOver(Column(payouts, f), {})
    BY <1>1, <1>2, PayoutSumIs
  <2>2. SumOver(Column(payouts, f), {}) = 0
    BY SumEmpty
  <2>3. totals[f] = 0
    BY <1>1 DEF NoShares, Fields
  <2> QED
    BY <2>1, <2>2, <2>3
<1>5. Nested(sessions, payouts, totals)
  BY <1>1, <1>4 DEF Nested
<1>6. \A c \in Conns : ~Live(th[c]) /\ ~Holds(th[c]) /\ th[c].pc = "free"
  BY DEF Init, Free, Live, Holds
<1>7. HoldersOk(th, sessions, payouts, next_session_id)
  BY <1>1, <1>6 DEF HoldersOk
<1>8. Busy = {}
  BY <1>6 DEF Busy
<1>9. node_tip <= MaxTip /\ stop \in BOOLEAN
  <2>1. node_tip = 0 /\ MaxTip \in Nat
    BY PoolAssumption DEF Init
  <2>2. node_tip <= MaxTip
    BY <2>1
  <2>3. stop \in BOOLEAN
    BY DEF Init
  <2> QED
    BY <2>2, <2>3
<1> QED
  <2>1. /\ Cardinality(DOMAIN sessions) <= MaxLedgerSessions
        /\ Cardinality(DOMAIN payouts) <= MaxLedgerPayouts
        /\ Cardinality(Busy) <= MaxConnections
    BY <1>1, <1>2, <1>8, PoolAssumption
  <2> QED
    BY <1>3, <1>5, <1>7, <1>9, <2>1 DEF LedgerInv

(* Every step of the pool keeps the ledger in order.                       *)
LEMMA NextLedger == Inv /\ LedgerInv /\ [Next]_vars => LedgerInv'
<1> SUFFICES ASSUME Inv, LedgerInv, [Next]_vars PROVE LedgerInv'
  OBVIOUS
<1>1. Inv'
  BY NextInv
<1>2. CASE ListenerRotates \/ PeerBlock \/ StopServer \/ UNCHANGED vars
  BY <1>2, OutsideLedger
<1>3. ASSUME NEW c \in Conns,
             \/ ThreadStep(c) \/ AcceptConnection(c) \/ SessionFails(c)
             \/ \E p \in Payouts : Hello(c, p)
             \/ \E j \in 1..current, n \in Nonces : ReadShare(c, j, n)
      PROVE  LedgerInv'
  <2>1. \A d \in Conns : d # c => th'[d] = th[d]
    BY <1>3, OtherThreadsKept
  <2>2. \/ QuietStep(c) \/ SubmitAccepted(c) \/ Reject(c)
        \/ RegisterSession(c) \/ DropSession(c)
        \/ AcceptConnection(c) \/ HelloRefused(c) \/ ReleaseConnection(c)
        \/ \E p \in Payouts : Hello(c, p)
    BY <1>3 DEF ThreadStep, QuietStep
  <2> QED
    BY <1>1, <2>1, <2>2, QuietLedger, CreditLedger, RegisterLedger, DropLedger, ArrivalLedger
<1> QED
  BY <1>2, <1>3 DEF Next

(* The pool's types follow from the two invariants.                        *)
LEMMA PoolTyped == Inv /\ LedgerInv => TypeOK
<1> SUFFICES ASSUME Inv, LedgerInv PROVE TypeOK
  OBVIOUS
<1> DEFINE J == [previous_block : 0..MaxTip, seen : SUBSET Nonces]
<1>1. node_tip \in 0..MaxTip
  BY PoolAssumption DEF Inv, JobsInv, LedgerInv
<1>2. jobs \in Seq(J) /\ jobs # <<>>
  <2>1. jobs \in Seq(Jobs) /\ Len(jobs) \in Nat /\ Len(jobs) >= 1
    BY DEF Inv, JobsInv, JobsOk
  <2>2. ASSUME NEW i \in 1..Len(jobs) PROVE jobs[i] \in J
    <3>1. jobs[i] \in Jobs /\ jobs[i].previous_block <= node_tip
      BY <2>1, <2>2 DEF Inv, JobsInv, JobsOk
    <3>2. jobs[i].previous_block \in 0..MaxTip
      BY <1>1, <3>1, PoolAssumption DEF Jobs
    <3> QED
      BY <3>1, <3>2 DEF Jobs
  <2> HIDE DEF J
  <2>3. jobs \in Seq(J)
    BY <2>1, <2>2
  <2> QED
    BY <2>1, <2>3
<1>3. totals \in Tallies /\ next_session_id \in 1..(MaxSessions + 1)
      /\ th \in [Conns -> Threads] /\ stop \in BOOLEAN
  BY DEF Inv, CreditsInv, ThreadsInv, LedgerInv
<1>4. /\ DOMAIN sessions \subseteq 1..MaxSessions
      /\ sessions \in [DOMAIN sessions -> [connected : BOOLEAN, payout : Payouts, tally : Tallies]]
      /\ DOMAIN payouts \subseteq Payouts
      /\ payouts \in [DOMAIN payouts -> [last : 1..MaxSessions, tally : Tallies]]
  BY DEF LedgerInv, TablesOk, SessionRecords, PayoutRecords
<1>5. credited \subseteq (1..current) \X Nonces
  <2>1. credited \subseteq Nat \X Nonces /\ \A x \in credited : x[1] \in 1..Len(jobs)
    BY DEF Inv, CreditsInv, CreditOk
  <2> QED
    BY <2>1 DEF current
<1>6. /\ Cardinality(DOMAIN sessions) <= MaxLedgerSessions
      /\ Cardinality(DOMAIN payouts) <= MaxLedgerPayouts
  BY DEF LedgerInv
<1> QED
  BY <1>1, <1>2, <1>3, <1>4, <1>5, <1>6 DEF TypeOK

(* The inductive invariant of the bounded ledger, with the pool's own.     *)
THEOREM LedgerInvariant == Spec => [](Inv /\ LedgerInv)
  BY InitInv, InitLedger, NextInv, NextLedger, PTL DEF Spec

(* However many sessions come and go, the ledger keeps to its limits,      *)
(* register_session finds room, pruning never takes the record or the      *)
(* label of a session in progress, and the tallies nest.                   *)
THEOREM LedgerSound == Spec => []RecordsSound
<1>1. Inv /\ LedgerInv => RecordsSound
  <2> SUFFICES ASSUME Inv, LedgerInv PROVE RecordsSound
    OBVIOUS
  <2>1. TypeOK
    BY PoolTyped
  <2>2. NeverAtCapacity
    BY RoomForSession, RoomForPayout DEF NeverAtCapacity
  <2>3. LiveSessionsRecorded
    BY DEF LedgerInv, HoldersOk, LiveSessionsRecorded, InSession, Live
  <2>4. TalliesNest
    BY DEF LedgerInv, Nested, Fields, TalliesNest
  <2> QED
    BY <2>1, <2>2, <2>3, <2>4 DEF RecordsSound
<1> QED
  BY <1>1, LedgerInvariant, PTL
=============================================================================
