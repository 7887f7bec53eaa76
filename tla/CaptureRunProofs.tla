-------------------------- MODULE CaptureRunProofs --------------------------
(* Proofs about CaptureRun, for every number of transfers and of faults: the *)
(* tcpdump of a transfer goes its own way, so what the harness may conclude  *)
(* at each of its stages has to hold whatever tcpdump does next.             *)
EXTENDS CaptureRun, FiniteSetTheorems, TLAPS

States == {"none", "spawned", "opening", "capturing", "exiting", "hung", "gone", "failed"}

\* Warnings, failed execs and rows belong to transfers that were begun and were
\* finished; a transfer not begun has no tcpdump.
InOrder ==
    /\ \A t \in Doubtful : t <= turn
    /\ \A t \in measured : t < turn
    /\ \A t \in Transfers : t > turn => tcpdump[t] = "none"
    /\ pc = "start" /\ turn \in Transfers => tcpdump[turn] = "none" /\ turn \notin Doubtful

\* A transfer that is over, up to which nothing is doubtful, left a complete pcap
\* of its whole length, and a tcpdump that is gone.
Settled ==
    \A t \in Transfers :
        t < turn /\ (\A w \in Doubtful : w > t) =>
            tcpdump[t] = "gone" /\ host[t] = "complete" /\ covers[t]

\* What the harness knows of the transfer in progress when no earlier one is
\* doubtful.
Earlier == Doubtful \subseteq {turn}

Begun ==
    Earlier =>
        /\ pc = "ready" =>
              tcpdump[turn] \in {"spawned", "opening", "capturing", "gone", "failed"}
        /\ pc = "transfer" => tcpdump[turn] \in {"opening", "capturing", "gone", "failed"}
        /\ pc = "stop" => tcpdump[turn] \in {"capturing", "gone", "failed"}
        /\ pc \in {"ready", "transfer"} => turn \notin Doubtful

\* ... and when it is not doubtful itself.
Ended ==
    Doubtful = {} =>
        /\ pc = "stop" /\ tcpdump[turn] = "capturing" => covers[turn]
        /\ pc = "exit" => tcpdump[turn] \in {"exiting", "gone", "hung"} /\ covers[turn]
        /\ pc \in {"copy", "analyze"} => tcpdump[turn] = "gone" /\ covers[turn]
        /\ pc = "analyze" => host[turn] = "complete"

\* The harness clears transfer_failed when a capture starts.
Cleared == pc \in {"ready", "transfer"} => ~transferFailed

Inv == TypeOK /\ InOrder /\ Settled /\ Begun /\ Ended /\ Cleared /\ CutShort

\* Until an earlier transfer is doubtful, no earlier tcpdump is to be seen: what pgrep
\* finds is the tcpdump of the transfer in progress.
LEMMA OnlyTheLatest == ASSUME Inv, Earlier PROVE Visible \subseteq {turn}
<1> SUFFICES ASSUME NEW t \in Visible PROVE t = turn
  OBVIOUS
<1>1. t \in Transfers /\ t \in Nat /\ turn \in Nat
  BY SweepPlan DEF Visible, Transfers, Inv, TypeOK
<1>2. tcpdump[t] # "none" /\ tcpdump[t] # "gone"
  BY DEF Visible
<1>3. ~(t > turn)
  BY <1>1, <1>2 DEF Inv, InOrder
<1>4. ASSUME t < turn PROVE FALSE
  <2>1. \A w \in Doubtful : w > t
    BY <1>1, <1>4 DEF Earlier
  <2> QED BY <1>1, <1>2, <1>4, <2>1 DEF Inv, Settled
<1> QED BY <1>1, <1>3, <1>4

\* The initial state satisfies the invariant.
LEMMA InvInit == Init => Inv
<1> SUFFICES ASSUME Init PROVE Inv
  OBVIOUS
<1>1. TypeOK
  <2>1. turn \in 1 .. NumTransfers + 1 /\ faults \in 0 .. MaxFaults
    BY SweepPlan DEF Init
  <2> QED BY <2>1 DEF Init, TypeOK, Stages
<1>2. InOrder /\ Settled
  BY SweepPlan DEF Init, InOrder, Settled, Transfers, Doubtful
<1>3. Begun /\ Ended /\ Cleared /\ CutShort
  BY DEF Init, Begun, Ended, Cleared, CutShort, Doubtful
<1> QED BY <1>1, <1>2, <1>3 DEF Inv

\* Starting a capture preserves the invariant.
LEMMA InvStart == ASSUME Inv, StartCapture PROVE Inv'
<1> USE SweepPlan DEF Inv, StartCapture, Fault, Doubtful
<1>1. turn \in Transfers /\ Transfers \subseteq Nat
  BY DEF TypeOK, Transfers
<1>2. TypeOK'
  <2>1. turn' \in 1 .. NumTransfers + 1 /\ (pc' # "start" => turn' \in Transfers)
    BY <1>1 DEF TypeOK, Transfers
  <2>2. pc' \in Stages \cup {"aborted"} /\ transferFailed' \in BOOLEAN
    BY DEF TypeOK, Stages
  <2>3. tcpdump' \in [Transfers -> States] /\ covers' \in [Transfers -> BOOLEAN]
    BY <1>1 DEF TypeOK, States
  <2>4. host' \in [Transfers -> {"none", "cut", "complete"}]
    BY <1>1 DEF TypeOK
  <2>5. warned' \subseteq Transfers /\ execFailed' \subseteq Transfers /\ measured' \subseteq Transfers
    BY <1>1 DEF TypeOK
  <2>6. faults' \in 0 .. MaxFaults
    BY DEF TypeOK
  <2> QED BY <2>1, <2>2, <2>3, <2>4, <2>5, <2>6 DEF TypeOK, States
<1>3. InOrder'
  BY <1>1 DEF InOrder, TypeOK
<1>4. Settled'
  BY <1>1 DEF Settled, TypeOK
<1>5. Begun'
  BY <1>1 DEF Begun, Earlier, TypeOK, InOrder
<1>6. Ended'
  BY <1>1 DEF Ended, TypeOK
<1>7. Cleared' /\ CutShort'
  BY DEF Cleared, CutShort
<1> QED BY <1>2, <1>3, <1>4, <1>5, <1>6, <1>7

\* Waiting until a tcpdump is there preserves the invariant: the one found is
\* the one that was started.
LEMMA InvReady == ASSUME Inv, WaitUntilReady PROVE Inv'
<1> USE SweepPlan DEF Inv, WaitUntilReady, Fault, Doubtful
<1>1. turn \in Transfers
  BY DEF TypeOK
<1>2. TypeOK'
  BY DEF TypeOK, Stages
<1>3. InOrder' /\ Settled'
  BY DEF InOrder, Settled
<1>4. Begun'
  <2> SUFFICES ASSUME Earlier, pc' = "transfer"
               PROVE  /\ tcpdump[turn] \in {"opening", "capturing", "gone", "failed"}
                      /\ turn \notin Doubtful
    BY DEF Begun, Earlier
  <2>1. turn \in Visible
    BY OnlyTheLatest
  <2> QED BY <2>1 DEF Begun, Visible
<1>5. Ended' /\ Cleared'
  BY DEF Ended, Cleared
<1>6. CutShort'
  BY DEF CutShort, Cleared
<1> QED BY <1>2, <1>3, <1>4, <1>5, <1>6

\* The end of the client's process preserves the invariant.
LEMMA InvTransfer == ASSUME Inv, Transfer PROVE Inv'
<1> USE SweepPlan DEF Inv, Transfer, Fault, Warn, Doubtful
<1>1. turn \in Transfers /\ Transfers \subseteq Nat
  BY DEF TypeOK, Transfers
<1>2. TypeOK'
  <2>1. turn' \in 1 .. NumTransfers + 1 /\ (pc' # "start" => turn' \in Transfers)
    BY <1>1 DEF TypeOK, Transfers
  <2>2. pc' \in Stages \cup {"aborted"} /\ transferFailed' \in BOOLEAN
    BY DEF TypeOK, Stages
  <2>3. tcpdump' \in [Transfers -> States] /\ covers' \in [Transfers -> BOOLEAN]
    BY <1>1 DEF TypeOK, States
  <2>4. host' \in [Transfers -> {"none", "cut", "complete"}]
    BY <1>1 DEF TypeOK
  <2>5. warned' \subseteq Transfers /\ execFailed' \subseteq Transfers /\ measured' \subseteq Transfers
    BY <1>1 DEF TypeOK
  <2>6. faults' \in 0 .. MaxFaults
    BY DEF TypeOK
  <2> QED BY <2>1, <2>2, <2>3, <2>4, <2>5, <2>6 DEF TypeOK, States
<1>3. InOrder'
  <2>1. \A t \in Doubtful' : t <= turn'
    <3>1. Doubtful' \subseteq Doubtful \cup {turn} /\ turn' \in {turn, turn + 1}
      OBVIOUS
    <3>2. Doubtful \subseteq Nat /\ turn \in Nat /\ \A t \in Doubtful : t <= turn
      BY <1>1 DEF TypeOK, InOrder
    <3> QED BY <3>1, <3>2
  <2>2. \A t \in measured' : t < turn'
    BY <1>1 DEF InOrder, TypeOK
  <2>3. \A t \in Transfers : t > turn' => tcpdump'[t] = "none"
    BY <1>1 DEF InOrder, TypeOK
  <2>4. pc' = "start" /\ turn' \in Transfers => tcpdump'[turn'] = "none" /\ turn' \notin Doubtful'
    BY <1>1 DEF InOrder, TypeOK
  <2> QED BY <2>1, <2>2, <2>3, <2>4 DEF InOrder
<1>4. Settled'
  BY <1>1 DEF Settled, TypeOK
<1>5. Begun'
  BY <1>1 DEF Begun, Earlier, TypeOK, InOrder
<1>6. Ended'
  BY <1>1 DEF Ended, TypeOK
<1>7. Cleared' /\ CutShort'
  BY DEF Cleared, CutShort
<1> QED BY <1>2, <1>3, <1>4, <1>5, <1>6, <1>7

\* pkill preserves the invariant: unless its exec fails, it finds none only if the
\* transfer's own tcpdump had died.
LEMMA InvStop == ASSUME Inv, StopTcpdump PROVE Inv'
<1> USE SweepPlan DEF Inv, StopTcpdump, ExecFails, SigTerm, Fault, Doubtful
<1>1. turn \in Transfers /\ Transfers \subseteq Nat
  BY DEF TypeOK, Transfers
<1>2. TypeOK'
  BY <1>1 DEF TypeOK, Stages, Terminated
<1>3. InOrder'
  BY <1>1 DEF InOrder, TypeOK, Terminated
<1>4. Settled'
  BY <1>1 DEF Settled, TypeOK, Terminated
<1>5. Begun' /\ Cleared'
  BY DEF Begun, Cleared
<1>6. Ended'
  <2> SUFFICES ASSUME Doubtful = {}, pc' = "exit"
               PROVE  tcpdump'[turn] \in {"exiting", "gone", "hung"} /\ covers[turn]
    BY DEF Ended
  <2>1. turn \in Visible
    BY OnlyTheLatest DEF Earlier
  <2>2. tcpdump[turn] = "capturing" /\ covers[turn]
    BY <2>1 DEF Visible, Begun, Earlier, Ended
  <2> QED BY <1>1, <2>2 DEF Terminated
<1>7. CutShort'
  BY <1>1 DEF CutShort, Begun, Earlier, Visible, Terminated
<1> QED BY <1>2, <1>3, <1>4, <1>5, <1>6, <1>7

\* Waiting for tcpdump to exit preserves the invariant.
LEMMA InvExit == ASSUME Inv, WaitForExit PROVE Inv'
<1> USE SweepPlan DEF Inv, WaitForExit, Warn, ExecFails, Fault, Doubtful
<1>1. turn \in Transfers /\ Transfers \subseteq Nat
  BY DEF TypeOK, Transfers
<1>2. TypeOK'
  <2>1. turn' \in 1 .. NumTransfers + 1 /\ (pc' # "start" => turn' \in Transfers)
    BY <1>1 DEF TypeOK, Transfers
  <2>2. pc' \in Stages \cup {"aborted"} /\ transferFailed' \in BOOLEAN
    BY DEF TypeOK, Stages
  <2>3. tcpdump' \in [Transfers -> States] /\ covers' \in [Transfers -> BOOLEAN]
    BY <1>1 DEF TypeOK, States
  <2>4. host' \in [Transfers -> {"none", "cut", "complete"}]
    BY <1>1 DEF TypeOK
  <2>5. warned' \subseteq Transfers /\ execFailed' \subseteq Transfers /\ measured' \subseteq Transfers
    BY <1>1 DEF TypeOK
  <2>6. faults' \in 0 .. MaxFaults
    BY DEF TypeOK
  <2> QED BY <2>1, <2>2, <2>3, <2>4, <2>5, <2>6 DEF TypeOK, States
<1>3. InOrder'
  <2>1. \A t \in Doubtful' : t <= turn'
    <3>1. Doubtful' \subseteq Doubtful \cup {turn} /\ turn' \in {turn, turn + 1}
      OBVIOUS
    <3>2. Doubtful \subseteq Nat /\ turn \in Nat /\ \A t \in Doubtful : t <= turn
      BY <1>1 DEF TypeOK, InOrder
    <3> QED BY <3>1, <3>2
  <2>2. \A t \in measured' : t < turn'
    BY <1>1 DEF InOrder, TypeOK
  <2>3. \A t \in Transfers : t > turn' => tcpdump'[t] = "none"
    BY <1>1 DEF InOrder, TypeOK
  <2>4. pc' = "start" /\ turn' \in Transfers => tcpdump'[turn'] = "none" /\ turn' \notin Doubtful'
    BY <1>1 DEF InOrder, TypeOK
  <2> QED BY <2>1, <2>2, <2>3, <2>4 DEF InOrder
<1>4. Settled'
  BY <1>1 DEF Settled, TypeOK
<1>5. Begun' /\ Cleared' /\ CutShort'
  BY DEF Begun, Cleared, CutShort
<1>6. Ended'
  BY <1>1 DEF Ended, Visible
<1> QED BY <1>2, <1>3, <1>4, <1>5, <1>6

\* Copying the pcap preserves the invariant.
LEMMA InvCopy == ASSUME Inv, CopyPcap PROVE Inv'
<1> USE SweepPlan DEF Inv, CopyPcap, Warn, Fault, NextTransfer, Doubtful
<1>1. turn \in Transfers /\ Transfers \subseteq Nat
  BY DEF TypeOK, Transfers
<1>2. TypeOK'
  <2>1. turn' \in 1 .. NumTransfers + 1 /\ (pc' # "start" => turn' \in Transfers)
    BY <1>1 DEF TypeOK, Transfers
  <2>2. pc' \in Stages \cup {"aborted"} /\ transferFailed' \in BOOLEAN
    BY DEF TypeOK, Stages
  <2>3. tcpdump' \in [Transfers -> States] /\ covers' \in [Transfers -> BOOLEAN]
    BY <1>1 DEF TypeOK, States
  <2>4. host' \in [Transfers -> {"none", "cut", "complete"}]
    BY <1>1 DEF TypeOK, Pcap
  <2>5. warned' \subseteq Transfers /\ execFailed' \subseteq Transfers /\ measured' \subseteq Transfers
    BY <1>1 DEF TypeOK
  <2>6. faults' \in 0 .. MaxFaults
    BY DEF TypeOK
  <2> QED BY <2>1, <2>2, <2>3, <2>4, <2>5, <2>6 DEF TypeOK, States
<1>3. InOrder'
  <2>1. \A t \in Doubtful' : t <= turn'
    <3>1. Doubtful' \subseteq Doubtful \cup {turn} /\ turn' \in {turn, turn + 1}
      OBVIOUS
    <3>2. Doubtful \subseteq Nat /\ turn \in Nat /\ \A t \in Doubtful : t <= turn
      BY <1>1 DEF TypeOK, InOrder
    <3> QED BY <3>1, <3>2
  <2>2. \A t \in measured' : t < turn'
    BY <1>1 DEF InOrder, TypeOK
  <2>3. \A t \in Transfers : t > turn' => tcpdump'[t] = "none"
    BY <1>1 DEF InOrder, TypeOK
  <2>4. pc' = "start" /\ turn' \in Transfers => tcpdump'[turn'] = "none" /\ turn' \notin Doubtful'
    BY <1>1 DEF InOrder, TypeOK
  <2> QED BY <2>1, <2>2, <2>3, <2>4 DEF InOrder
<1>4. Settled'
  <2> SUFFICES ASSUME NEW t \in Transfers, t < turn', \A w \in Doubtful' : w > t
               PROVE  tcpdump[t] = "gone" /\ host'[t] = "complete" /\ covers[t]
    BY DEF Settled
  <2>1. \A w \in Doubtful : w > t
    OBVIOUS
  <2>2. CASE t < turn
    <3>1. host'[t] = host[t]
      BY <1>1, <2>2 DEF TypeOK
    <3> QED BY <2>1, <2>2, <3>1 DEF Settled
  <2>3. CASE t = turn
    <3>1. Doubtful = {} /\ Doubtful' = Doubtful
      BY <1>1, <2>1, <2>3 DEF InOrder, TypeOK
    <3>2. tcpdump[turn] = "gone" /\ covers[turn] /\ turn \notin Doubtful
      BY <3>1 DEF Ended
    <3>3. host'[turn] = "complete"
      BY <1>1, <2>3, <3>1, <3>2 DEF Pcap, TypeOK
    <3> QED BY <2>3, <3>2, <3>3
  <2> QED BY <1>1, <2>2, <2>3
<1>5. Begun' /\ Cleared' /\ CutShort'
  BY DEF Begun, Cleared, CutShort
<1>6. Ended'
  BY <1>1 DEF Ended, Pcap, TypeOK
<1> QED BY <1>2, <1>3, <1>4, <1>5, <1>6

\* Analysing the pcap preserves the invariant.
LEMMA InvAnalyze == ASSUME Inv, Analyze PROVE Inv'
<1> USE SweepPlan DEF Inv, Analyze, Warn, NextTransfer, Doubtful
<1>1. turn \in Transfers /\ Transfers \subseteq Nat
  BY DEF TypeOK, Transfers
<1>2. TypeOK'
  <2>1. turn' \in 1 .. NumTransfers + 1 /\ (pc' # "start" => turn' \in Transfers)
    BY <1>1 DEF TypeOK, Transfers
  <2>2. pc' \in Stages \cup {"aborted"} /\ transferFailed' \in BOOLEAN
    BY DEF TypeOK, Stages
  <2>3. tcpdump' \in [Transfers -> States] /\ covers' \in [Transfers -> BOOLEAN]
    BY <1>1 DEF TypeOK, States
  <2>4. host' \in [Transfers -> {"none", "cut", "complete"}]
    BY <1>1 DEF TypeOK
  <2>5. warned' \subseteq Transfers /\ execFailed' \subseteq Transfers /\ measured' \subseteq Transfers
    BY <1>1 DEF TypeOK
  <2>6. faults' \in 0 .. MaxFaults
    BY DEF TypeOK
  <2> QED BY <2>1, <2>2, <2>3, <2>4, <2>5, <2>6 DEF TypeOK, States
<1>3. InOrder'
  <2>1. \A t \in Doubtful' : t <= turn'
    <3>1. Doubtful' \subseteq Doubtful \cup {turn} /\ turn' \in {turn, turn + 1}
      OBVIOUS
    <3>2. Doubtful \subseteq Nat /\ turn \in Nat /\ \A t \in Doubtful : t <= turn
      BY <1>1 DEF TypeOK, InOrder
    <3> QED BY <3>1, <3>2
  <2>2. \A t \in measured' : t < turn'
    <3>1. measured' \subseteq measured \cup {turn} /\ turn' = turn + 1
      OBVIOUS
    <3>2. measured \subseteq Nat /\ turn \in Nat /\ \A t \in measured : t < turn
      BY <1>1 DEF TypeOK, InOrder
    <3> QED BY <3>1, <3>2
  <2>3. \A t \in Transfers : t > turn' => tcpdump'[t] = "none"
    BY <1>1 DEF InOrder, TypeOK
  <2>4. pc' = "start" /\ turn' \in Transfers => tcpdump'[turn'] = "none" /\ turn' \notin Doubtful'
    BY <1>1 DEF InOrder, TypeOK
  <2> QED BY <2>1, <2>2, <2>3, <2>4 DEF InOrder
<1>4. Settled'
  <2> SUFFICES ASSUME NEW t \in Transfers, t < turn + 1, \A w \in Doubtful' : w > t
               PROVE  tcpdump[t] = "gone" /\ host[t] = "complete" /\ covers[t]
    BY DEF Settled
  <2>1. \A w \in Doubtful : w > t
    OBVIOUS
  <2>2. CASE t < turn
    BY <2>1, <2>2 DEF Settled
  <2>3. CASE t = turn
    <3>1. Doubtful = {}
      BY <1>1, <2>1, <2>3 DEF InOrder, TypeOK
    <3> QED BY <2>3, <3>1 DEF Ended
  <2> QED BY <1>1, <2>2, <2>3
<1>5. Begun' /\ Ended' /\ Cleared' /\ CutShort'
  BY DEF Begun, Ended, Cleared, CutShort
<1> QED BY <1>2, <1>3, <1>4, <1>5

\* Whatever a tcpdump does of its own preserves the invariant: what the harness
\* concluded at its stage stays true.
LEMMA InvTcpdump ==
    ASSUME Inv, NEW t \in Transfers, Tcpdump(t) \/ Dies(t) \/ Hangs(t)
    PROVE  Inv'
<1> USE SweepPlan DEF Inv, Doubtful
<1>1. PICK s \in States :
        /\ TcpdumpTo(t, s) /\ faults' \in 0 .. MaxFaults
        /\ \/ tcpdump[t] = "spawned" /\ s \in {"opening", "failed"}
           \/ tcpdump[t] = "opening" /\ s \in {"capturing", "failed"}
           \/ tcpdump[t] = "capturing" /\ s = "gone"
           \/ tcpdump[t] = "exiting" /\ s \in {"gone", "hung"}
  BY DEF Tcpdump, Appears, Opens, Exits, Dies, Hangs, Fault, States, TypeOK
<1> USE <1>1 DEF TcpdumpTo
<1>2. TypeOK'
  BY DEF TypeOK, States
<1>3. InOrder'
  BY DEF InOrder, TypeOK
<1>4. Settled'
  BY DEF Settled, TypeOK
<1>5. Begun'
  BY DEF Begun, Earlier, TypeOK
<1>6. Ended'
  BY DEF Ended, Begun, Earlier, TypeOK
<1>7. Cleared' /\ CutShort'
  BY DEF Cleared, CutShort, TypeOK
<1> QED BY <1>2, <1>3, <1>4, <1>5, <1>6, <1>7

\* Every step preserves the invariant.
LEMMA InvNext == Inv /\ [Next]_vars => Inv'
<1> SUFFICES ASSUME Inv, [Next]_vars PROVE Inv'
  OBVIOUS
<1>1. CASE Harness
  BY <1>1, InvStart, InvReady, InvTransfer, InvStop, InvExit, InvCopy, InvAnalyze
     DEF Harness, Command
<1>2. CASE \E t \in Transfers : Tcpdump(t) \/ Dies(t) \/ Hangs(t)
  BY <1>2, InvTcpdump
<1>3. CASE UNCHANGED vars
  BY <1>3 DEF vars, Inv, TypeOK, InOrder, Settled, Begun, Earlier, Ended, Cleared, CutShort, Doubtful
<1> QED BY <1>1, <1>2, <1>3 DEF Next

\* The invariant holds in every reachable state.
THEOREM Invariant == Spec => []Inv
<1> QED BY InvInit, InvNext, PTL DEF Spec

\* The harness keeps to its stages, and warns about and measures transfers of
\* its sweep (benchmark_manager.py, run_protocol and run_transfer).
THEOREM TypeCorrect == Spec => []TypeOK
<1>1. Inv => TypeOK
  BY DEF Inv
<1> QED BY <1>1, Invariant, PTL

\* As long as no WARNING was printed and no exec of pkill or pgrep failed up to a
\* transfer, its pcap row was computed from a complete pcap that reaches the end of the
\* transfer, however slowly its tcpdump started and exited (packet_capture.py,
\* stop_capture_run).
THEOREM Trusted == Spec => []TrustedMeasurement
<1>1. Inv => TrustedMeasurement
  <2> SUFFICES ASSUME Inv, NEW t \in measured, Doubtful \cap (1 .. t) = {}
               PROVE  host[t] = "complete" /\ covers[t]
    BY DEF TrustedMeasurement
  <2>1. t \in Transfers /\ t < turn
    BY DEF Inv, TypeOK, InOrder
  <2>2. Doubtful \subseteq 1 .. NumTransfers /\ t \in Nat
    BY <2>1, SweepPlan DEF Inv, TypeOK, Transfers, Doubtful
  <2>3. \A w \in Doubtful : w > t
    BY <2>2, SweepPlan
  <2> QED BY <2>1, <2>3 DEF Inv, Settled
<1> QED BY <1>1, Invariant, PTL

\* Before the first WARNING or failed exec, pgrep and pkill, which go by the program's
\* name, find no other tcpdump than the transfer's own (packet_capture.py).
THEOREM NeverTwo == Spec => []OneCapture
<1>1. Inv => OneCapture
  <2> SUFFICES ASSUME Inv, Doubtful = {} PROVE Cardinality(Visible) <= 1
    BY DEF OneCapture
  <2>1. Visible \subseteq {turn}
    BY OnlyTheLatest DEF Earlier
  <2>2. Cardinality({turn}) = 1 /\ IsFiniteSet({turn})
    BY FS_Singleton
  <2> QED BY <2>1, <2>2, FS_Subset
<1> QED BY <1>1, Invariant, PTL

\* A sweep is cut short by a failed transfer only if its tcpdump had died or the exec of
\* pkill failed: the safety half of SweepEnds (benchmark_manager.py, the finally of
\* run_transfer).
THEOREM NotCutShort == Spec => []CutShort
<1>1. Inv => CutShort
  BY DEF Inv
<1> QED BY <1>1, Invariant, PTL
=============================================================================
