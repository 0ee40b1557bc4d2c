------------------------- MODULE RunSession_proofs -------------------------
(***************************************************************************)
(* Proofs about the signals of a run, and about the run as a whole.  The   *)
(* first part speaks of RunSignals alone; the second shows that a          *)
(* RunSession is one, and goes on from there.                              *)
(***************************************************************************)
EXTENDS RunSession, TLAPS

LEMMA ExitCodes == ASSUME NEW d \in Status PROVE exitCodeOf(d) \in Nat
<1>1. \A c \in Codes \cup Deaths \cup {0, 9} : c \in Nat
  BY ConstantsOK
<1>2. d.number \in Codes \cup Deaths \cup {0, 9}
  BY DEF Status, KillNumber
<1>3. d.number \in Nat
  BY <1>1, <1>2, Zenon
<1>4. 128 + d.number \in Nat
  BY <1>3
<1> QED
  BY <1>3, <1>4 DEF exitCodeOf

LEMMA Statuses ==
    /\ [signaled |-> TRUE, number |-> KillNumber, ours |-> TRUE] \in Status
    /\ \A c \in Codes : [signaled |-> FALSE, number |-> c, ours |-> FALSE] \in Status
    /\ \A n \in Deaths : [signaled |-> TRUE, number |-> n, ours |-> FALSE] \in Status
  BY DEF Status

\* The init keeps a type when it is killed.
LEMMA KillTypes ==
    ASSUME TypeOK, KillInit
    PROVE  init' \in {"none", "waiting", "running", "dead"} /\ death' \in Status
  BY Statuses DEF TypeOK, KillInit, Killed, Dies

LEMMA TypingStep ==
    ASSUME TypeOK, [Next]_vars
    PROVE  TypeOK'
<1> USE ConstantsOK DEF TypeOK, Steps, mainVars, forwardVars, initVars, sendVars
<1>1. ASSUME CreateContainer PROVE TypeOK'
  <2>1. at' \in Steps /\ exit' \in Nat
    BY <1>1 DEF CreateContainer, Return1
  <2>2. stateDir' \in {"none", "there", "left"}
    BY <1>1 DEF CreateContainer
  <2> QED
    BY <1>1, <2>1, <2>2 DEF CreateContainer
<1>2. ASSUME CatchSignals PROVE TypeOK'
  BY <1>2 DEF CatchSignals
<1>3. ASSUME Start PROVE TypeOK'
  BY <1>3 DEF Start, Return1
<1>4. ASSUME ForwardTo PROVE TypeOK'
  BY <1>4 DEF ForwardTo
<1>5. ASSUME SetUp PROVE TypeOK'
  BY <1>5 DEF SetUp, Return1
<1>6. ASSUME Exec PROVE TypeOK'
  <2>1. at' \in Steps /\ exit' \in Nat
    BY <1>6 DEF Exec, Return1
  <2>2. init' \in {"none", "waiting", "running", "dead"} /\ ran' \in BOOLEAN
    BY <1>6 DEF Exec
  <2> QED
    BY <1>6, <2>1, <2>2 DEF Exec
<1>7. ASSUME Wait PROVE TypeOK'
  BY <1>7, ExitCodes DEF Wait, Return1
<1>8. ASSUME StopSignalling PROVE TypeOK'
  BY <1>8 DEF StopSignalling
<1>9. ASSUME Destroy PROVE TypeOK'
  <2>1. death' \in Status /\ init' \in {"none", "waiting", "running", "dead"}
    BY <1>9, Statuses DEF Destroy, Killed, Dies
  <2> QED
    BY <1>9, <2>1 DEF Destroy
<1>10. ASSUME Forward PROVE TypeOK'
  <2>1. Head(received) \in Signals /\ Tail(received) \in Seq(Signals)
        /\ Len(Tail(received)) <= Cap
    BY <1>10 DEF Forward
  <2>2. death' \in Status /\ init' \in {"none", "waiting", "running", "dead"}
    BY <1>10, KillTypes DEF Forward, PassOn, PassKill
  <2>3. passed' \in Seq(Signals \cup {Kill})
    <3>1. PICK x \in Signals \cup {Kill} : passed' = Append(passed, x)
      BY <1>10, <2>1 DEF Forward, PassOn, PassKill
    <3> QED
      BY <3>1
  <2> QED
    BY <1>10, <2>1, <2>2, <2>3 DEF Forward
<1>11. ASSUME ForwardTimer PROVE TypeOK'
  BY <1>11, KillTypes DEF ForwardTimer
<1>12. ASSUME ForwardDone PROVE TypeOK'
  BY <1>12 DEF ForwardDone
<1>13. ASSUME TimerFires PROVE TypeOK'
  BY <1>13 DEF TimerFires
<1>14. ASSUME InitExits PROVE TypeOK'
  BY <1>14, Statuses DEF InitExits, Dies
<1>15. ASSUME NEW s \in Signals, SendSignal(s) PROVE TypeOK'
  <2>1. Append(received, s) \in Seq(Signals)
        /\ Len(Append(received, s)) = Len(received) + 1
        /\ Append(accepted, s) \in Seq(Signals)
    OBVIOUS
  <2> QED
    <3>1. /\ received' \in Seq(Signals) /\ Len(received') <= Cap
          /\ accepted' \in Seq(Signals)
      <4>1. CASE UNCHANGED <<received, accepted>>
        BY <4>1
      <4>2. CASE /\ Len(received) < Cap
                 /\ received' = Append(received, s)
                 /\ accepted' = Append(accepted, s)
        <5>1. Len(received) \in Nat /\ Cap \in Nat
          OBVIOUS
        <5>2. Len(received) + 1 <= Cap
          BY <4>2, <5>1
        <5> QED
          BY <2>1, <4>2, <5>2
      <4> QED
        BY <1>15, <4>1, <4>2 DEF SendSignal, Deliver
    <3>2. sent' \in Nat
      BY <1>15 DEF SendSignal, Deliver
    <3>3. at' \in Steps /\ forwarder' \in {"none", "running", "returned"}
      BY <1>15 DEF SendSignal
    <3> QED
      BY <1>15, <3>1, <3>2, <3>3 DEF SendSignal
<1>16. CASE BreakPipe
  BY <1>16 DEF BreakPipe
<1>17. CASE UNCHANGED vars
  BY <1>17 DEF vars
<1> QED
  BY <1>1, <1>2, <1>3, <1>4, <1>5, <1>6, <1>7, <1>8, <1>9, <1>10, <1>11,
     <1>12, <1>13, <1>14, <1>15, <1>16, <1>17 DEF Next, Main, Forwarder

-----------------------------------------------------------------------------
(* The channel: what is received is the tail of what was accepted.         *)

LEMMA TakeOne ==
    ASSUME TypeOK, PassedOn, received # <<>>
    PROVE  /\ Len(passed) + 1 \in 1..Len(accepted)
           /\ Head(received) = accepted[Len(passed) + 1]
           /\ Len(accepted) - Len(Tail(received)) = Len(passed) + 1
           /\ \A i \in 1..Len(Tail(received)) :
                 Tail(received)[i] = accepted[Len(passed) + 1 + i]
<1> USE DEF TypeOK, PassedOn, Handled
<1>1. Len(received) \in Nat \ {0} /\ Len(Tail(received)) = Len(received) - 1
  OBVIOUS
<1>2. Head(received) = received[1]
  OBVIOUS
<1>3. \A i \in 1..Len(Tail(received)) : Tail(received)[i] = received[i + 1]
  OBVIOUS
<1>4. Len(passed) \in Nat /\ Len(accepted) \in Nat
  OBVIOUS
<1>5. ASSUME NEW i \in 1..Len(Tail(received))
      PROVE  Tail(received)[i] = accepted[Len(passed) + 1 + i]
  <2>1. i + 1 \in 1..Len(received) /\ Len(passed) + (i + 1) = Len(passed) + 1 + i
    BY <1>1, <1>4
  <2>2. received[i + 1] = accepted[Len(passed) + (i + 1)]
    BY <2>1
  <2> QED
    BY <1>3, <2>1, <2>2
<1>6. received[1] = accepted[Len(passed) + 1]
  BY <1>1
<1>7. Len(accepted) - Len(received) = Len(passed)
  OBVIOUS
<1> HIDE DEF TypeOK, PassedOn, Handled
<1>8. Len(passed) + 1 <= Len(accepted) /\ Len(passed) + 1 \in Nat
  BY <1>1, <1>4, <1>7
<1>9. Len(accepted) - Len(Tail(received)) = Len(passed) + 1
  BY <1>1, <1>4, <1>7
<1> QED
  BY <1>2, <1>4, <1>5, <1>6, <1>8, <1>9

\* Accepting a signal changes nothing about the ones before it.
LEMMA AcceptOne ==
    ASSUME TypeOK, PassedOn, NEW s \in Signals, SendSignal(s)
    PROVE  /\ \A i \in 1..Len(passed) : accepted'[i] = accepted[i]
           /\ Len(accepted') - Len(received') = Len(passed)
           /\ \A i \in 1..Len(received') : received'[i] = accepted'[Len(passed) + i]
           /\ passed' = passed
<1> USE DEF TypeOK, PassedOn, Handled
<1>1. CASE received' = Append(received, s) /\ accepted' = Append(accepted, s)
           /\ passed' = passed
  <2>1. Len(received') = Len(received) + 1 /\ Len(accepted') = Len(accepted) + 1
        /\ Len(received) \in Nat /\ Len(accepted) \in Nat /\ Len(passed) \in Nat
    BY <1>1
  <2>2. \A i \in 1..Len(accepted) : accepted'[i] = accepted[i]
    BY <1>1
  <2>3. \A i \in 1..Len(received) : received'[i] = received[i]
    BY <1>1
  <2>4. received'[Len(received) + 1] = s /\ accepted'[Len(accepted) + 1] = s
    BY <1>1
  <2>5. Len(passed) <= Len(accepted)
    BY <2>1
  <2>6. ASSUME NEW i \in 1..Len(received')
        PROVE  received'[i] = accepted'[Len(passed) + i]
    <3>1. CASE i = Len(received) + 1
      BY <2>1, <2>4, <3>1
    <3>2. CASE i # Len(received) + 1
      <4>1. i \in 1..Len(received) /\ Len(passed) + i \in 1..Len(accepted)
        BY <2>1, <3>2
      <4>2. received[i] = accepted[Len(passed) + i]
        BY <4>1
      <4> QED
        BY <2>2, <2>3, <4>1, <4>2
    <3> QED
      BY <3>1, <3>2
  <2>7. \A i \in 1..Len(passed) : i \in 1..Len(accepted)
    BY <2>1, <2>5
  <2>8. Len(accepted') - Len(received') = Len(passed)
    <3>1. Len(accepted) - Len(received) = Len(passed)
      OBVIOUS
    <3> HIDE DEF TypeOK, PassedOn, Handled
    <3> QED
      BY <2>1, <3>1
  <2> HIDE DEF TypeOK, PassedOn, Handled
  <2> QED
    BY <1>1, <2>2, <2>6, <2>7, <2>8
<1>2. CASE UNCHANGED <<received, accepted, passed>>
  <2>1. Len(passed) \in Nat /\ Len(received) \in Nat /\ Len(accepted) \in Nat
    OBVIOUS
  <2> QED
    BY <1>2, <2>1
<1> QED
  BY <1>1, <1>2 DEF SendSignal, Deliver, forwardVars

LEMMA PassedStep ==
    ASSUME TypeOK, PassedOn, Latch, [Next]_vars
    PROVE  PassedOn' /\ Latch'
<1>1. ASSUME UNCHANGED <<received, accepted, passed, stopRequested, killTimer>>
      PROVE  PassedOn' /\ Latch'
  BY <1>1 DEF PassedOn, Latch, Handled, SecondStop
<1>2. ASSUME UNCHANGED <<received, accepted, passed, stopRequested>>,
             killTimer # "nil" \/ killTimer' = "nil"
      PROVE  PassedOn' /\ Latch'
  BY <1>2 DEF PassedOn, Latch, Handled, SecondStop
<1>3. ASSUME Forward PROVE PassedOn' /\ Latch'
  <2> DEFINE s == Head(received)
             n == Len(passed) + 1
             x == IF SecondStop(n) THEN Kill ELSE s
  <2>1. n \in Nat /\ n \in 1..Len(accepted) /\ s = accepted[n]
        /\ accepted' = accepted
    BY <1>3, TakeOne DEF Forward, TypeOK, sendVars
  <2>2. stopRequested <=> \E j \in 1..(n - 1) : accepted[j] \in StopSignals
    <3>1. n - 1 = Len(passed)
      BY <2>1 DEF TypeOK
    <3> QED
      BY <3>1 DEF Latch
  <2>3. SecondStop(n) <=> isStopSignal(s) /\ stopRequested
    BY <2>1, <2>2 DEF SecondStop, isStopSignal
  <2>4. passed' = Append(passed, x)
    BY <1>3, <2>3 DEF Forward, PassOn, PassKill
  <2>5. Len(passed') = n /\ passed'[n] = x
        /\ \A i \in 1..Len(passed) : passed'[i] = passed[i]
    <3> HIDE DEF x
    <3> QED
      BY <2>4 DEF TypeOK
  <2>6. stopRequested' <=> stopRequested \/ isStopSignal(s)
    BY <1>3 DEF Forward
  <2>7. killTimer' # "nil" => stopRequested'
    BY <1>3 DEF Forward, Latch
  <2>8. PassedOn'
    <3>1. \A i : SecondStop(i)' <=> SecondStop(i)
      BY <2>1 DEF SecondStop
    <3>2. Handled' = Len(passed') /\ \A i \in 1..Len(received') :
             received'[i] = accepted'[Handled' + i]
      BY <1>3, <2>1, <2>5, TakeOne DEF Forward, Handled
    <3>3. ASSUME NEW i \in 1..Len(passed')
          PROVE  passed'[i] = IF SecondStop(i)' THEN Kill ELSE accepted'[i]
      <4>1. CASE i = n
        BY <2>1, <2>5, <3>1, <4>1
      <4>2. CASE i # n
        <5>1. i \in 1..Len(passed)
          BY <2>1, <2>5, <4>2 DEF TypeOK
        <5> QED
          BY <2>1, <2>5, <3>1, <5>1 DEF PassedOn
      <4> QED
        BY <4>1, <4>2
    <3> QED
      BY <3>2, <3>3 DEF PassedOn
  <2>9. stopRequested' <=> \E i \in 1..Len(passed') : accepted'[i] \in StopSignals
    <3>1. \A i \in 1..n : i = n \/ i \in 1..(n - 1)
      BY <2>1
    <3>2. n \in 1..n /\ \A i \in 1..(n - 1) : i \in 1..n
      BY <2>1
    <3> QED
      BY <2>1, <2>2, <2>5, <2>6, <3>1, <3>2 DEF isStopSignal
  <2> QED
    BY <2>7, <2>8, <2>9 DEF Latch
<1>4. ASSUME NEW s \in Signals, SendSignal(s) PROVE PassedOn' /\ Latch'
  <2>1. stopRequested' = stopRequested /\ killTimer' = killTimer /\ passed' = passed
    BY <1>4 DEF SendSignal, forwardVars
  <2>2. \A i \in 1..Len(passed) : SecondStop(i)' <=> SecondStop(i)
    <3>1. ASSUME NEW i \in 1..Len(passed) PROVE \A j \in 1..(i - 1) : j \in 1..Len(passed)
      BY DEF TypeOK
    <3> QED
      BY <1>4, <3>1, AcceptOne DEF SecondStop
  <2>3. PassedOn'
    BY <1>4, <2>1, <2>2, AcceptOne DEF PassedOn, Handled
  <2> QED
    BY <1>4, <2>1, <2>3, AcceptOne DEF Latch
<1>5. CASE Main
  BY <1>1, <1>5 DEF Main, CreateContainer, CatchSignals, Start, ForwardTo, SetUp,
     Exec, Wait, StopSignalling, Destroy, forwardVars, sendVars
<1>6. CASE ForwardTimer \/ ForwardDone \/ TimerFires \/ InitExits \/ BreakPipe
  BY <1>2, <1>6 DEF ForwardTimer, ForwardDone, TimerFires, InitExits, BreakPipe,
     forwardVars, sendVars
<1>7. CASE UNCHANGED vars
  BY <1>1, <1>7 DEF vars, forwardVars, sendVars
<1> QED
  BY <1>3, <1>4, <1>5, <1>6, <1>7 DEF Next, Forwarder

-----------------------------------------------------------------------------
(* The main goroutine                                                      *)

LEMMA PhasesStep ==
    ASSUME TypeOK, Phases, CleanEnd, [Next]_vars
    PROVE  Phases' /\ CleanEnd'
<1> USE DEF Phases, CleanEnd, Alive
<1>1. CASE CreateContainer
  BY <1>1 DEF CreateContainer, Return1, initVars
<1>2. CASE CatchSignals
  BY <1>2 DEF CatchSignals, initVars
<1>3. CASE Start
  BY <1>3 DEF Start, Return1
<1>4. CASE ForwardTo
  BY <1>4 DEF ForwardTo, initVars
<1>5. CASE SetUp
  BY <1>5 DEF SetUp, Return1, initVars
<1>6. CASE Exec
  BY <1>6 DEF Exec, Return1
<1>7. CASE Wait
  BY <1>7 DEF Wait, Return1, initVars
<1>8. CASE StopSignalling
  BY <1>8 DEF StopSignalling, initVars
<1>9. CASE Destroy
  BY <1>9 DEF Destroy, Killed, Dies, TypeOK
<1>10. CASE Forward
  BY <1>10 DEF Forward, PassOn, PassKill, KillInit, Killed, Dies, mainVars
<1>11. CASE ForwardTimer
  BY <1>11 DEF ForwardTimer, KillInit, Killed, Dies, mainVars
<1>12. CASE ForwardDone \/ TimerFires
  BY <1>12 DEF ForwardDone, TimerFires, initVars, mainVars
<1>13. CASE InitExits
  BY <1>13 DEF InitExits, Dies, mainVars
<1>14. ASSUME NEW s \in Signals, SendSignal(s) PROVE Phases' /\ CleanEnd'
  BY <1>14 DEF SendSignal, initVars
<1>15. CASE UNCHANGED vars \/ BreakPipe
  BY <1>15 DEF vars, initVars, mainVars, BreakPipe, Over
<1> QED
  BY <1>1, <1>2, <1>3, <1>4, <1>5, <1>6, <1>7, <1>8, <1>9, <1>10, <1>11,
     <1>12, <1>13, <1>14, <1>15 DEF Next, Main, Forwarder

-----------------------------------------------------------------------------
(* The grace period                                                        *)

\* What excuses a kill: an expired grace period, or a second stop signal.
Excused ==
    \/ killTimer = "spent" /\ (\E i \in 1..Len(passed) : accepted[i] \in StopSignals)
    \/ \E i \in 1..Len(passed) : SecondStop(i)

\* An excuse stays one.
LEMMA ExcusedStays ==
    ASSUME TypeOK, PassedOn, Latch, Excused, [Next]_vars
    PROVE  Excused'
<1>1. ASSUME NEW n \in Nat, n >= Len(passed), Len(passed') = n,
             \A i \in 1..Len(passed) : accepted'[i] = accepted[i],
             killTimer = "spent" => killTimer' = "spent" \/ Excused'
      PROVE  Excused'
  <2>1. Len(passed) \in Nat /\ \A i \in 1..Len(passed) : i \in 1..n
    BY <1>1 DEF TypeOK
  <2>2. ASSUME NEW i \in 1..Len(passed), SecondStop(i) PROVE SecondStop(i)'
    <3>1. \A j \in 1..(i - 1) : j \in 1..Len(passed)
      BY <2>1
    <3> QED
      BY <1>1, <2>2, <3>1 DEF SecondStop
  <2> QED
    BY <1>1, <2>1, <2>2 DEF Excused
<1>2. ASSUME UNCHANGED <<accepted, passed>>, killTimer = "spent" => killTimer' = "spent"
      PROVE  Excused'
  BY <1>2 DEF Excused, SecondStop
<1>3. CASE Forward
  <2>1. accepted' = accepted /\ Len(passed) \in Nat /\ Len(passed') = Len(passed) + 1
    BY <1>3 DEF Forward, PassOn, PassKill, sendVars, TypeOK
  <2>2. CASE killTimer' = killTimer
    BY <1>1, <2>1, <2>2
  <2>3. CASE killTimer' # killTimer
    <3>1. ~stopRequested
      BY <1>3, <2>3 DEF Forward
    <3> QED
      BY <1>1, <2>1, <3>1 DEF Latch
  <2> QED
    BY <2>2, <2>3
<1>4. ASSUME NEW s \in Signals, SendSignal(s) PROVE Excused'
  <2>1. killTimer' = killTimer /\ Len(passed) \in Nat
    BY <1>4 DEF SendSignal, forwardVars, TypeOK
  <2> QED
    BY <1>1, <1>4, <2>1, AcceptOne
<1>5. CASE Main
  BY <1>2, <1>5 DEF Main, CreateContainer, CatchSignals, Start, ForwardTo, SetUp,
     Exec, Wait, StopSignalling, Destroy, forwardVars, sendVars
<1>6. CASE ForwardTimer \/ ForwardDone \/ TimerFires \/ InitExits \/ BreakPipe
  BY <1>2, <1>6 DEF ForwardTimer, ForwardDone, TimerFires, InitExits, BreakPipe,
     forwardVars, sendVars
<1>7. CASE UNCHANGED vars
  BY <1>2, <1>7 DEF vars, forwardVars, sendVars
<1> QED
  BY <1>3, <1>4, <1>5, <1>6, <1>7 DEF Next, Forwarder

LEMMA GraceStep ==
    ASSUME TypeOK, PassedOn, Latch, Phases, GraceRespected, [Next]_vars
    PROVE  GraceRespected'
<1> USE DEF GraceRespected, Excused, Handled
<1>1. PassedOn' /\ Latch'
  BY PassedStep
<1>2. Handled = Len(passed) /\ Handled' = Len(passed)'
  BY <1>1 DEF PassedOn
<1>3. CASE Excused
  <2>1. Excused'
    BY <1>3, ExcusedStays
  <2> QED
    BY <1>2, <2>1
<1>4. ASSUME ~Excused, UNCHANGED <<ran, death>>,
             at = "ended" => at' = "ended"
      PROVE  GraceRespected'
  BY <1>2, <1>4
<1>5. ASSUME ~Excused, Forward PROVE GraceRespected'
  <2>1. CASE isStopSignal(Head(received)) /\ stopRequested
    <3>0. PICK n \in Nat : n = Len(passed) + 1
      BY DEF TypeOK
    <3>1. n \in 1..Len(accepted) /\ Head(received) = accepted[n]
          /\ accepted' = accepted /\ n - 1 = Len(passed)
      BY <1>5, <3>0, TakeOne DEF Forward, TypeOK, sendVars
    <3>2. SecondStop(n)
      BY <2>1, <3>1 DEF SecondStop, isStopSignal, Latch
    <3>3. SecondStop(n)'
      BY <3>1, <3>2 DEF SecondStop
    <3>4. Len(passed') = n
      BY <1>5, <3>0 DEF Forward, PassOn, PassKill, TypeOK
    <3>5. n \in 1..Len(passed')
      BY <3>1, <3>4
    <3> QED
      BY <1>2, <3>3, <3>5
  <2>2. CASE ~(isStopSignal(Head(received)) /\ stopRequested)
    BY <1>4, <1>5, <2>2 DEF Forward, PassOn, mainVars
  <2> QED
    BY <2>1, <2>2
<1>6. CASE ForwardTimer
  <2>1. killTimer' = "spent" /\ stopRequested'
    BY <1>6 DEF ForwardTimer, Latch
  <2>2. \E i \in 1..Len(passed') : accepted'[i] \in StopSignals
    BY <1>1, <2>1 DEF Latch
  <2> QED
    BY <1>2, <2>1, <2>2
<1>7. CASE Destroy
  BY <1>7, <1>4, <1>3 DEF Destroy, Killed, Dies, Phases
<1>8. CASE InitExits
  BY <1>8 DEF InitExits, Dies
<1>9. ASSUME NEW s \in Signals, SendSignal(s) PROVE GraceRespected'
  BY <1>3, <1>4, <1>9 DEF SendSignal, initVars, Over
<1>10. CASE CreateContainer
  BY <1>10, <1>3, <1>4 DEF CreateContainer, initVars
<1>11. CASE Start
  BY <1>11, <1>3, <1>4 DEF Start
<1>12. CASE Exec
  <2>1. CASE init = "waiting" /\ death' = death
    BY <2>1 DEF Phases
  <2>2. CASE UNCHANGED <<ran, death>>
    BY <1>3, <1>4, <1>12, <2>2 DEF Exec
  <2> QED
    BY <1>12, <2>1, <2>2 DEF Exec
<1>13. CASE CatchSignals \/ ForwardTo \/ SetUp \/ Wait \/ StopSignalling
  BY <1>3, <1>4, <1>13 DEF CatchSignals, ForwardTo, SetUp, Wait, StopSignalling,
     initVars
<1>14. CASE ForwardDone \/ TimerFires \/ BreakPipe \/ UNCHANGED vars
  BY <1>3, <1>4, <1>14 DEF ForwardDone, TimerFires, BreakPipe, Over, vars,
     initVars, mainVars
<1> QED
  BY <1>3, <1>5, <1>6, <1>7, <1>8, <1>9, <1>10, <1>11, <1>12, <1>13, <1>14
     DEF Next, Main, Forwarder

-----------------------------------------------------------------------------
THEOREM Invariance == Spec => []IInv
<1>1. Init => IInv
  <2> SUFFICES ASSUME Init PROVE IInv
    OBVIOUS
  <2> USE DEF Init
  <2>1. TypeOK
    <3>1. death \in Status
      BY DEF Status
    <3>2. Cap \in Nat
      BY ConstantsOK
    <3> QED
      <4>1. received \in Seq(Signals) /\ Len(received) <= Cap
        BY <3>2
      <4>2. accepted \in Seq(Signals) /\ passed \in Seq(Signals \cup {Kill})
        OBVIOUS
      <4>3. at \in Steps
        BY DEF Steps
      <4> QED
        BY <3>1, <4>1, <4>2, <4>3 DEF TypeOK
  <2>2. PassedOn /\ Latch
    BY DEF PassedOn, Latch, Handled
  <2>3. Phases /\ CleanEnd /\ GraceRespected
    BY DEF Phases, CleanEnd, GraceRespected
  <2> QED
    BY <2>1, <2>2, <2>3 DEF IInv
<1>2. IInv /\ [Next]_vars => IInv'
  BY TypingStep, PassedStep, PhasesStep, GraceStep DEF IInv
<1> QED
  BY <1>1, <1>2, PTL DEF Spec

\* Every variable keeps its type; in particular the channel is never overfull.
THEOREM TypeCorrect == Spec => []TypeOK
<1>1. IInv => TypeOK
  BY DEF IInv
<1> QED
  BY <1>1, Invariance, PTL

\* Whatever arrives when, every caught signal is passed on once and in order.
THEOREM InOrder == Spec => []PassedOn
<1>1. IInv => PassedOn
  BY DEF IInv
<1> QED
  BY <1>1, Invariance, PTL

\* No command is killed within its grace period without a second stop signal.
THEOREM Grace == Spec => []GraceRespected
<1>1. IInv => GraceRespected
  BY DEF IInv
<1> QED
  BY <1>1, Invariance, PTL

\* A run that returns has taken its container with it, and the state, unless
\* Destroy itself failed to remove that.
THEOREM Clean == Spec => []CleanEnd
<1>1. IInv => CleanEnd
  BY DEF IInv
<1> QED
  BY <1>1, Invariance, PTL

\* Whatever the command dies of, a signal of its own, of the kernel or of
\* curimata, the exit code tells it, unless curimata itself failed.
THEOREM ExitCode == Spec => []ExitTellsEnd
<1>1. IInv => ExitTellsEnd
  <2> SUFFICES ASSUME IInv, at = "ended" PROVE ExitTellsEnd
    BY DEF ExitTellsEnd
  <2>1. IF ran THEN init = "dead" /\ exit \in {1, exitCodeOf(death)} ELSE exit = 1
    BY DEF IInv, Phases
  <2> QED
    BY <2>1 DEF ExitTellsEnd, exitCodeOf
<1> QED
  BY <1>1, Invariance, PTL

(***************************************************************************)
(* A run as a whole is a run as RunSignals sees it.                        *)
(***************************************************************************)

LEMMA StepImplements ==
    ASSUME [SessionNext]_allVars
    PROVE  [Next]_vars
<1>1. CASE SessionMain
  <2>1. CASE ParseRunArgs
    BY <2>1 DEF ParseRunArgs, Next, Main
  <2>2. CASE ResolveRootfs
    BY <2>2 DEF ResolveRootfs, Next, Main
  <2>3. CASE Create
    BY <2>3 DEF Create, Next, Main
  <2>4. CASE StartContainer
    BY <2>4 DEF StartContainer, Next, Main
  <2>5. CASE OpenNetwork
    BY <2>5 DEF OpenNetwork, SetUpFails, Next, Main
  <2>6. CASE Attach \/ PassStreams
    BY <2>6 DEF Attach, PassStreams, SetUpDone, SetUpFails, Next, Main
  <2>7. CASE StartCloseTimer \/ CloseTerminal \/ CloseProxies
    BY <2>7 DEF StartCloseTimer, CloseTerminal, CloseProxies
  <2>8. CASE GiveSignalsBack
    BY <2>8 DEF GiveSignalsBack, Next, Main
  <2>9. CASE (CatchSignals \/ ForwardTo \/ Exec \/ Wait \/ Destroy) /\ UNCHANGED sessionVars
    BY <2>9 DEF Next, Main
  <2> QED
    BY <1>1, <2>1, <2>2, <2>3, <2>4, <2>5, <2>6, <2>7, <2>8, <2>9 DEF SessionMain
<1>2. CASE ForwarderStep \/ (Outside /\ UNCHANGED sessionVars) \/ WriteIntoPipe
  BY <1>2 DEF ForwarderStep, Forwarder, WriteIntoPipe, Outside, Next
<1>3. CASE Write \/ CopyOutput \/ CopyEnds \/ ScreenStops
  BY <1>3 DEF Write, CopyOutput, CopyEnds, ScreenStops
<1>4. CASE CloseTimerFires \/ SessionChanges
  BY <1>4 DEF CloseTimerFires, SessionChanges
<1>5. CASE UNCHANGED allVars
  BY <1>5 DEF allVars
<1> QED
  BY <1>1, <1>2, <1>3, <1>4, <1>5 DEF SessionNext

\* startAgentEnvironment: with its limits, its proxies and its terminal a run
\* does with signals and the container what RunSignals says, so that what is
\* proved of every run there is true of this one.
THEOREM ImplementsSignals == SessionSpec => Spec
<1>1. SessionInit => Init
  BY DEF SessionInit
<1> QED
  BY <1>1, StepImplements, PTL DEF SessionSpec, Spec

\* What is proved of RunSignals holds here.
LEMMA SignalsInvariance == SessionSpec => []IInv
  BY ImplementsSignals, Invariance, PTL

-----------------------------------------------------------------------------
(* The terminal                                                            *)

\* The steps of the main goroutine that the terminal has no part in.
LEMMA TerminalMainStep ==
    ASSUME TInv, Phases, SessionMain, UNCHANGED terminalVars, setting' = setting
    PROVE  TInv' \/ Attach \/ PassStreams \/ GiveSignalsBack
<1> USE DEF TInv, TerminalStates, OutputStates, terminalVars, outputVars
<1>1. CASE ParseRunArgs \/ ResolveRootfs \/ Create
  BY <1>1 DEF ParseRunArgs, ResolveRootfs, Create, CreateContainer, Return1, vars,
     mainVars, initVars
<1>2. CASE StartContainer
  BY <1>2 DEF StartContainer, Start, Return1, Phases
<1>3. CASE OpenNetwork
  BY <1>3 DEF OpenNetwork, SetUpFails, SetUp, Return1, vars, mainVars, initVars
<1>4. CASE StartCloseTimer \/ CloseTerminal \/ CloseProxies
  BY <1>4 DEF StartCloseTimer, CloseTerminal, CloseProxies, vars, mainVars, initVars
<1>5. CASE CatchSignals
  BY <1>5 DEF CatchSignals, initVars
<1>6. CASE ForwardTo
  BY <1>6 DEF ForwardTo, initVars
<1>7. CASE Exec
  BY <1>7 DEF Exec, Return1
<1>8. CASE Wait
  BY <1>8 DEF Wait, Return1, initVars
<1>9. CASE Destroy
  BY <1>9 DEF Destroy, Killed, Dies
<1> QED
  BY <1>1, <1>2, <1>3, <1>4, <1>5, <1>6, <1>7, <1>8, <1>9 DEF SessionMain

LEMMA TerminalStep ==
    ASSUME TInv, TypeOK, Phases, [SessionNext]_allVars
    PROVE  TInv'
<1> USE DEF TInv, TerminalStates, OutputStates
<1>1. CASE Attach
  BY <1>1 DEF Attach, SetUpDone, SetUpFails, SetUp, Return1, argVars, initVars
<1>2. CASE PassStreams
  BY <1>2 DEF PassStreams, SetUpDone, SetUp, Return1, sessionVars, argVars,
     terminalVars, outputVars, initVars
<1>3. CASE GiveSignalsBack
  BY <1>3 DEF GiveSignalsBack, StopSignalling, sessionVars, argVars,
     terminalVars, outputVars, initVars
<1>4. CASE StartCloseTimer
  BY <1>4 DEF StartCloseTimer, vars, mainVars, initVars, argVars, outputVars
<1>5. CASE CloseTerminal
  BY <1>5 DEF CloseTerminal, vars, mainVars, initVars, argVars, outputVars
<1>6. CASE CloseProxies
  BY <1>6 DEF CloseProxies, vars, mainVars, initVars, argVars, terminalVars, outputVars
<1>7. CASE ParseRunArgs \/ ResolveRootfs \/ Create \/ StartContainer \/ OpenNetwork
           \/ ((CatchSignals \/ ForwardTo \/ Exec \/ Wait \/ Destroy)
                 /\ UNCHANGED sessionVars)
  <2>1. UNCHANGED terminalVars /\ setting' = setting
    BY <1>7 DEF ParseRunArgs, ResolveRootfs, Create, StartContainer, OpenNetwork,
       sessionVars, argVars
  <2>2. SessionMain
    BY <1>7 DEF SessionMain
  <2> HIDE DEF TInv, TerminalStates, OutputStates
  <2>3. TInv' \/ Attach \/ PassStreams \/ GiveSignalsBack
    BY <2>1, <2>2, TerminalMainStep
  <2> QED
    BY <2>3, <1>1, <1>2, <1>3
<1>8. CASE ForwarderStep
  <2>0. Forwarder /\ UNCHANGED sessionVars
    BY <1>8 DEF ForwarderStep, Forwarder
  <2>1. init' = init \/ init' = "dead"
    BY <2>0 DEF Forwarder, Forward, ForwardTimer, ForwardDone, PassOn, PassKill,
       KillInit, Killed, Dies, initVars
  <2>2. init # "none" => init' # "none"
    BY <2>1
  <2>3. UNCHANGED mainVars
    BY <2>0 DEF Forwarder, Forward, ForwardTimer, ForwardDone
  <2> QED
    BY <2>0, <2>1, <2>2, <2>3 DEF mainVars, sessionVars, argVars, terminalVars, outputVars
<1>9. CASE Outside /\ UNCHANGED sessionVars
  <2>1. CASE TimerFires
    BY <1>9, <2>1 DEF TimerFires, mainVars, initVars, sessionVars, argVars,
       terminalVars, outputVars
  <2>2. CASE InitExits
    BY <1>9, <2>2 DEF InitExits, Dies, mainVars, sessionVars, argVars,
       terminalVars, outputVars
  <2>3. ASSUME NEW s \in Signals, SendSignal(s) PROVE TInv'
    BY <1>9, <2>3 DEF SendSignal, Over, initVars, sessionVars, argVars,
       terminalVars, outputVars
  <2> QED
    BY <1>9, <2>1, <2>2, <2>3 DEF Outside
<1>10. CASE Write
  <2>1. at = "wait" /\ init # "dead"
    BY <1>10 DEF Write, Phases, Over
  <2> QED
    BY <1>10, <2>1 DEF Write, vars, mainVars, initVars, argVars
<1>11. CASE CopyOutput
  BY <1>11 DEF CopyOutput, vars, mainVars, initVars, argVars
<1>12. CASE CopyEnds
  <2>1. init' = init /\ at' = at /\ notify' = notify /\ UNCHANGED <<setting, host, closeTimer, screen, written, shown>>
    BY <1>12 DEF CopyEnds, vars, mainVars, initVars, argVars
  <2>2. copier = "copying" /\ (copier' = "broken" \/ (copier' = "done" /\ ~Alive /\ shown = written))
    BY <1>12 DEF CopyEnds
  <2>3. ~Alive => init \in {"none", "dead"}
    BY DEF Alive, TypeOK
  <2> QED
    BY <2>1, <2>2, <2>3
<1>13. CASE ScreenStops \/ CloseTimerFires \/ SessionChanges
  BY <1>13 DEF ScreenStops, CloseTimerFires, SessionChanges, vars, mainVars,
     initVars, argVars, terminalVars, outputVars
<1>14. CASE WriteIntoPipe
  BY <1>14 DEF WriteIntoPipe, BreakPipe, Over, initVars, sessionVars, argVars,
     terminalVars, outputVars
<1>15. CASE UNCHANGED allVars
  BY <1>15 DEF allVars, vars, mainVars, initVars, sessionVars, argVars,
     terminalVars, outputVars
<1> QED
  BY <1>1, <1>2, <1>3, <1>4, <1>5, <1>6, <1>7, <1>8, <1>9, <1>10, <1>11, <1>12,
     <1>13, <1>14, <1>15 DEF SessionNext, SessionMain

LEMMA TerminalInvariance == SessionSpec => []TInv
<1>1. SessionInit => TInv
  <2> SUFFICES ASSUME SessionInit PROVE TInv
    OBVIOUS
  <2>1. 0 \in Nat /\ 0 <= 0
    OBVIOUS
  <2> QED
    BY <2>1 DEF SessionInit, Init, TInv, TerminalStates, OutputStates
<1>2. TInv /\ IInv /\ [SessionNext]_allVars => TInv'
  BY TerminalStep DEF IInv
<1> QED
  BY <1>1, <1>2, SignalsInvariance, PTL DEF SessionSpec

\* startAgentEnvironment: whatever fails, and whatever signals come at any
\* time, curimata ends with the host terminal in raw mode only when Reset
\* itself fails, or when it writes into a pipe that nobody reads any more.
THEOREM Restored == SessionSpec => []TerminalRestored
<1>1. TInv => TerminalRestored
  BY DEF TInv, TerminalStates, TerminalRestored, Over
<1> QED
  BY <1>1, TerminalInvariance, PTL

\* terminal.close: output is missing on the screen only when the screen did
\* not take it, for any amount of output.
THEOREM Shown == SessionSpec => []OutputShown
<1>1. TInv => OutputShown
  <2> SUFFICES ASSUME TInv, at \in {"uncaught", "ended"}, shown < written
               PROVE  closeTimer = "fired" \/ copier = "broken"
    BY DEF OutputShown
  <2>1. written > 0 /\ shown # written
    BY DEF TInv, TerminalStates
  <2>2. host # "raw" /\ at # "killed"
    BY DEF TInv, TerminalStates
  <2> QED
    BY <2>1, <2>2 DEF TInv, OutputStates
<1> QED
  BY <1>1, TerminalInvariance, PTL

\* RunSignals' CleanEnd and PassedOn hold of a run with limits, proxies and
\* a terminal as well.
THEOREM SessionClean == SessionSpec => [](CleanEnd /\ PassedOn)
<1>1. IInv => CleanEnd /\ PassedOn
  BY DEF IInv
<1> QED
  BY <1>1, SignalsInvariance, PTL

-----------------------------------------------------------------------------
(* The limits                                                              *)

\* A limit in MiB that check accepts has a size that an int64 can hold.
LEMMA SizeFits ==
    ASSUME NEW n \in 0..maxMemoryMiB
    PROVE  int64(n * MiB) = n * MiB
<1> USE LimitsOK
<1>1. n * MiB \in 0..MaxInt
  <2>1. maxMemoryMiB * MiB <= MaxInt /\ maxMemoryMiB \in Nat
    BY DEF maxMemoryMiB
  <2>2. n * MiB <= maxMemoryMiB * MiB
    BY <2>1
  <2>3. n * MiB \in Nat
    OBVIOUS
  <2> QED
    BY <2>1, <2>2, <2>3
<1>2. ASSUME NEW x \in 0..MaxInt PROVE int64(x) = x
  <2>1. x + MaxInt + 1 \in 0..(2 * (MaxInt + 1) - 1)
    OBVIOUS
  <2>2. ASSUME NEW m \in Nat \ {0}, NEW a \in 0..(m - 1) PROVE a % m = a
    OBVIOUS
  <2>3. (x + MaxInt + 1) % (2 * (MaxInt + 1)) = x + MaxInt + 1
    BY <2>1, <2>2
  <2> QED
    BY <2>3 DEF int64
<1> QED
  BY <1>1, <1>2

\* What is asked for is what apply makes of it.
LEMMA AskedIsApplied ==
    ASSUME NEW f \in Fields
    PROVE  Asked(f) = apply(setting.flags, setting.file)[f]
  BY DEF Asked, apply

\* A cgroup that check has let through, with a scope when it needs one.
LEMMA CgroupTellsAll ==
    ASSUME SettingsOK, LInv, ran
    PROVE  LimitsInForce
<1> USE LimitsOK
<1>1. PICK scope \in BOOLEAN : cgroup = cgroupConfig(limits, scope)
  BY DEF LInv
<1>2. check(limits) /\ \A f \in Fields : limits[f] = Asked(f)
  BY AskedIsApplied DEF LInv
<1>3. limits["pids"] \in Nat
  <2>1. limits["pids"] \in Int
    <3>1. \A asked \in {setting.flags, setting.file} :
             "pids" \in DOMAIN asked => asked["pids"] \in Int
      BY SettingsOK DEF LInv, SettingsOK
    <3>2. 0 \in Int /\ "pids" \in Fields
      BY DEF Fields
    <3> QED
      BY <1>2, <3>1, <3>2 DEF Asked
  <2> QED
    BY <1>2, <2>1 DEF check
<1>4. limits["memoryMiB"] \in Nat /\ cgroup.memory = limits["memoryMiB"] * MiB
  <2>1. limits["memoryMiB"] \in 0..maxMemoryMiB
    BY <1>2 DEF check
  <2>2. int64(limits["memoryMiB"] * MiB) = limits["memoryMiB"] * MiB
    BY <2>1, SizeFits
  <2>3. cgroup.memory = IF limits["memoryMiB"] > 0 THEN limits["memoryMiB"] * MiB ELSE 0
    BY <1>1, <2>2 DEF cgroupConfig
  <2> QED
    BY <2>1, <2>3 
<1>5. cgroup.pids = limits["pids"]
  <2>1. cgroup.pids = IF limits["pids"] > 0 THEN limits["pids"] ELSE 0
    BY <1>1 DEF cgroupConfig
  <2> QED
    BY <1>3, <2>1
<1>6. /\ limits["cpus"] \in Nat
      /\ cgroup.quota \in Nat
      /\ limits["cpus"] - 10 * cgroup.quota \in 0..9
      /\ limits["cpus"] > 0 => cgroup.quota >= MinQuota
  <2>1. limits["cpus"] \in Nat
    <3>1. NumCPU * Period * 10 \in Int
      OBVIOUS
    <3> QED
      BY <1>2, <3>1 DEF check
  <2>2. cgroup.quota = IF limits["cpus"] > 0 THEN limits["cpus"] \div 10 ELSE 0
    BY <1>1 DEF cgroupConfig, Quota
  <2>3. limits["cpus"] > 0 => limits["cpus"] \div 10 >= MinQuota
    BY <1>2 DEF check, Quota
  <2> QED
    BY <2>1, <2>2, <2>3
<1>7. ASSUME NEW f \in Fields, limits[f] > 0 PROVE cgroup.systemd
  <2> SUFFICES ASSUME cgroup.memory = 0, cgroup.pids = 0, cgroup.quota = 0
               PROVE  FALSE
    BY DEF LInv
  <2>1. limits["memoryMiB"] = 0
    BY <1>4
  <2>2. limits["pids"] = 0
    BY <1>5
  <2>3. limits["cpus"] = 0
    BY <1>6
  <2> QED
    BY <1>7, <2>1, <2>2, <2>3 DEF Fields
<1>8. \A f \in Fields : Asked(f) = limits[f]
  BY <1>2
<1>9. "memoryMiB" \in Fields /\ "pids" \in Fields /\ "cpus" \in Fields
  BY DEF Fields
<1> QED
  BY <1>4, <1>5, <1>6, <1>7, <1>8, <1>9 DEF LimitsInForce

\* Only Exec makes ran true, at "ready"; and the arguments stay from there.
LEMMA LimitStep ==
    ASSUME LInv, Phases, [SessionNext]_allVars
    PROVE  LInv'
<1> USE DEF LInv
<1>1. CASE ParseRunArgs
  <2> USE <1>1 DEF ParseRunArgs
  <2>1. ~ran /\ ran' = ran
    BY DEF Phases, CreateContainer, vars, initVars
  <2>2. at' \in {"begin", "ended"}
    BY DEF vars, mainVars
  <2>3. setting' = setting
    OBVIOUS
  <2>4. CASE /\ check(apply(setting.flags, setting.file))
             /\ limits' = apply(setting.flags, setting.file) /\ stage' = "box"
    <3>1. check(limits') /\ limits' = apply(setting'.flags, setting'.file)
      BY <2>3, <2>4
    <3> QED
      BY <2>1, <2>2, <2>3, <2>4, <3>1
  <2>5. CASE UNCHANGED <<limits, stage>>
    BY <2>1, <2>2, <2>3, <2>5
  <2> QED
    BY <2>4, <2>5
<1>2. CASE ResolveRootfs
  <2>1. ~ran /\ ran' = ran /\ at' \in {"begin", "ended"}
    BY <1>2 DEF ResolveRootfs, Phases, CreateContainer, vars, mainVars, initVars
  <2>2. UNCHANGED <<setting, limits, cgroup>> /\ stage' \in {"box", "create"}
    BY <1>2 DEF ResolveRootfs
  <2> QED
    BY <2>1, <2>2, <1>2 DEF ResolveRootfs
<1>3. CASE Create
  <2>1. ~ran /\ ran' = ran
    BY <1>3 DEF Create, CreateContainer, Phases, initVars
  <2>2. at' \in {"created", "ended"}
    BY <1>3 DEF Create, CreateContainer, Return1
  <2>3. at' # "ended" =>
          cgroup' = cgroupConfig(limits, systemdScope(setting.noSystemd, session))
    BY <1>3 DEF Create
  <2>4. systemdScope(setting.noSystemd, session) \in BOOLEAN
    BY DEF systemdScope
  <2>5. UNCHANGED <<setting, stage, limits>> /\ stage = "create"
    BY <1>3 DEF Create
  <2> QED
    BY <2>1, <2>2, <2>3, <2>4, <2>5
<1>4. CASE StartContainer
  <2>1. UNCHANGED <<setting, stage, limits, cgroup>>
    BY <1>4 DEF StartContainer, sessionVars, argVars
  <2>2. ~ran /\ ran' = ran /\ at = "caught" /\ at' \in {"started", "closing"}
    BY <1>4 DEF StartContainer, Start, Return1, Phases
  <2>3. at' = "started" =>
          cgroup.systemd \/ (cgroup.memory = 0 /\ cgroup.pids = 0 /\ cgroup.quota = 0)
    BY <1>4 DEF StartContainer, Startable
  <2> QED
    BY <2>1, <2>2, <2>3
<1>5. CASE UNCHANGED <<setting, stage, limits, cgroup>> /\ ran' = ran
           /\ (at' = at \/ at' \in {"wait", "closing", "uncaught", "ended", "killed"})
  BY <1>5
<1>6. CASE CatchSignals /\ UNCHANGED sessionVars
  BY <1>6 DEF CatchSignals, sessionVars, argVars, initVars
<1>7. CASE ForwardTo /\ UNCHANGED sessionVars
  BY <1>7 DEF ForwardTo, sessionVars, argVars, initVars
<1>8. CASE OpenNetwork \/ Attach \/ PassStreams
  <2>1. UNCHANGED <<setting, stage, limits, cgroup>>
    BY <1>8 DEF OpenNetwork, Attach, PassStreams, sessionVars, argVars
  <2>2. ran' = ran /\ at = "forwarding" /\ at' \in {"forwarding", "ready", "closing"}
    BY <1>8 DEF OpenNetwork, Attach, PassStreams, SetUpDone, SetUpFails, SetUp,
       Return1, vars, mainVars, initVars
  <2> QED
    BY <2>1, <2>2
<1>9. CASE Exec /\ UNCHANGED sessionVars
  BY <1>9 DEF Exec, Return1, sessionVars, argVars
<1>10. CASE StartCloseTimer \/ CloseTerminal \/ CloseProxies
  BY <1>10, <1>5 DEF StartCloseTimer, CloseTerminal, CloseProxies, vars, mainVars,
     initVars, argVars
<1>11. CASE GiveSignalsBack
  BY <1>11, <1>5 DEF GiveSignalsBack, StopSignalling, sessionVars, argVars, initVars
<1>12. CASE (Wait \/ Destroy) /\ UNCHANGED sessionVars
  BY <1>12, <1>5 DEF Wait, Destroy, Return1, sessionVars, argVars, initVars
<1>13. CASE ForwarderStep
  <2>0. Forwarder /\ UNCHANGED sessionVars
    BY <1>13 DEF ForwarderStep, Forwarder
  <2>1. UNCHANGED mainVars /\ ran' = ran
    BY <2>0 DEF Forwarder, Forward, ForwardTimer, ForwardDone, initVars
  <2> QED
    BY <2>0, <2>1, <1>5 DEF mainVars, sessionVars, argVars
<1>14. CASE Outside /\ UNCHANGED sessionVars
  <2>1. ran' = ran /\ (at' = at \/ at' = "killed")
    BY <1>14 DEF Outside, TimerFires, InitExits, SendSignal, mainVars, initVars
  <2> QED
    BY <1>14, <2>1, <1>5 DEF sessionVars, argVars
<1>16. CASE WriteIntoPipe
  BY <1>16 DEF WriteIntoPipe, BreakPipe, Over, LInv, sessionVars, argVars, initVars
<1>15. CASE Write \/ CopyOutput \/ CopyEnds \/ ScreenStops \/ CloseTimerFires
            \/ SessionChanges \/ UNCHANGED allVars
  BY <1>15, <1>5 DEF Write, CopyOutput, CopyEnds, ScreenStops, CloseTimerFires,
     SessionChanges, allVars, sessionVars, argVars, vars, mainVars, initVars
<1> QED
  BY <1>1, <1>2, <1>3, <1>4, <1>6, <1>7, <1>8, <1>9, <1>10, <1>11, <1>12, <1>13,
     <1>14, <1>15, <1>16 DEF SessionNext, SessionMain

\* parseRunArgs, cgroupConfig: whatever the session of systemd does while the
\* run is prepared, a command runs with all the limits that were asked for, or
\* does not run; and no limit in MiB is too large for its size in bytes.
THEOREM InForce == SessionSpec => []LimitsInForce
<1>1. SessionInit => LInv
  BY DEF SessionInit, Init, LInv
<1>2. LInv /\ IInv /\ [SessionNext]_allVars => LInv'
  BY LimitStep DEF IInv
<1>3. LInv => LimitsInForce
  <2>1. ~ran => LimitsInForce
    BY DEF LimitsInForce
  <2> QED
    BY <2>1, CgroupTellsAll, SettingsOK
<1> QED
  BY <1>1, <1>2, <1>3, SignalsInvariance, PTL DEF SessionSpec
=============================================================================
