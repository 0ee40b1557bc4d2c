------------------------- MODULE NetnsHolder_proofs -------------------------
EXTENDS NetnsHolder, TLAPS

LEMMA Counting ==
    /\ 0 # NAddrs /\ 0 < NAddrs
    /\ \A s, g \in Nat : g <= s /\ s < NAddrs =>
          s # NAddrs /\ s + 1 \in Nat /\ g <= s + 1 /\ s + 1 <= NAddrs
          /\ (s + 1 # NAddrs => s + 1 < NAddrs)
  BY NAddrsOK

LEMMA InductiveStep ==
    ASSUME IInv, [Next]_vars
    PROVE  IInv'
<1> USE NAddrsOK DEF IInv, TypeOK, HeldIsLive, StageTwoMapped, GoneIsGone,
        Handshake, HelperLives, runVars, GotoHelper
<1>1. CASE StartHelper
  <2>1. TypeOK' /\ HeldIsLive' /\ StageTwoMapped' /\ GoneIsGone'
        /\ (at = "held" => got = NAddrs)'
    BY <1>1 DEF StartHelper
  <2>2. sent' = 0 /\ sent' # NAddrs
    BY <1>1, Counting DEF StartHelper
  <2>3. Handshake'
    BY <1>1, <2>2 DEF StartHelper
  <2> QED
    BY <2>1, <2>3
<1>2. CASE DropChildEnds
  BY <1>2 DEF DropChildEnds
<1>3. CASE WriteIDMaps
  BY <1>3 DEF WriteIDMaps
<1>4. CASE Release
  BY <1>4 DEF Release
<1>5. CASE Receive
  <2>1. TypeOK'
    <3>1. got' \in Nat /\ sent' = sent /\ got' <= sent'
      BY <1>5 DEF Receive
    <3>2. at' \in {"receive", "held", "stop"}
      BY <1>5 DEF Receive
    <3>3. parentSock' \in BOOLEAN
      BY <1>5 DEF Receive
    <3>4. helper' = helper /\ UNCHANGED <<aliveOpen, childSock, idMaps, goAhead, interrupted>>
      BY <1>5 DEF Receive
    <3> QED
      BY <1>5, <3>1, <3>2, <3>3, <3>4 DEF Receive
  <2>2. HeldIsLive' /\ (at = "held" => got = NAddrs)'
    BY <1>5 DEF Receive
  <2>3. StageTwoMapped'
    BY <1>5 DEF Receive
  <2>4. GoneIsGone'
    BY <1>5 DEF Receive
  <2>5. Handshake'
    BY <1>5 DEF Receive
  <2> QED
    BY <2>1, <2>2, <2>3, <2>4, <2>5
<1>6. CASE Finish
  BY <1>6 DEF Finish
<1>7. CASE CloseAlive
  BY <1>7 DEF CloseAlive
<1>8. CASE KillAndWait
  <2>1. TypeOK'
    <3>1. helper' = "dead" /\ at' = "gone" /\ parentSock' = FALSE
      BY <1>8 DEF KillAndWait
    <3>2. got' = got /\ sent' = sent /\ UNCHANGED <<aliveOpen, childSock, idMaps, goAhead, interrupted>>
      BY <1>8 DEF KillAndWait
    <3> QED
      BY <1>8, <3>1, <3>2 DEF KillAndWait
  <2>2. HeldIsLive' /\ (at = "held" => got = NAddrs)'
    BY <1>8 DEF KillAndWait
  <2>3. StageTwoMapped'
    BY <1>8 DEF KillAndWait
  <2>4. GoneIsGone'
    BY <1>8 DEF KillAndWait
  <2>5. Handshake'
    BY <1>8 DEF KillAndWait
  <2> QED
    BY <2>1, <2>2, <2>3, <2>4, <2>5
<1>9. CASE RunKilled
  BY <1>9 DEF RunKilled
<1>10. CASE ReadGoAhead
  BY <1>10 DEF ReadGoAhead
<1>11. CASE ExecStage2
  BY <1>11 DEF ExecStage2
<1>12. CASE LoopbackUp
  <2>1. TypeOK'
    <3>1. helper' \in {"none", "stage1", "exec", "stage2", "listen", "hold", "dead"}
      BY <1>12 DEF LoopbackUp
    <3>2. UNCHANGED <<at, aliveOpen, childSock, parentSock, got, idMaps, goAhead, sent, interrupted>>
      BY <1>12 DEF LoopbackUp
    <3> QED
      BY <1>12, <3>1, <3>2 DEF LoopbackUp
  <2>2. HeldIsLive' /\ (at = "held" => got = NAddrs)'
    BY <1>12 DEF LoopbackUp
  <2>3. StageTwoMapped'
    BY <1>12 DEF LoopbackUp
  <2>4. GoneIsGone'
    BY <1>12 DEF LoopbackUp
  <2>5. Handshake'
    <3>1. sent' = 0 /\ sent' # NAddrs /\ sent' < NAddrs
      BY <1>12, Counting DEF LoopbackUp
    <3>2. helper' \in {"listen", "dead"}
      BY <1>12 DEF LoopbackUp
    <3>3. UNCHANGED <<at, aliveOpen, idMaps, goAhead>> /\ helper # "none"
      BY <1>12 DEF LoopbackUp
    <3> QED
      BY <3>1, <3>2, <3>3
  <2> QED
    BY <2>1, <2>2, <2>3, <2>4, <2>5
<1>13. CASE SendListener
  <2>1. TypeOK'
    <3>1. helper' \in {"none", "stage1", "exec", "stage2", "listen", "hold", "dead"}
      BY <1>13 DEF SendListener
    <3>2. sent' \in Nat /\ got' = got /\ got' <= sent' /\ sent' <= NAddrs
      BY <1>13, Counting DEF SendListener
    <3>3. UNCHANGED <<at, aliveOpen, childSock, parentSock, idMaps, goAhead, interrupted>>
      BY <1>13 DEF SendListener
    <3> QED
      BY <1>13, <3>1, <3>2, <3>3 DEF SendListener
  <2>2. HeldIsLive' /\ (at = "held" => got = NAddrs)'
    BY <1>13 DEF SendListener
  <2>3. StageTwoMapped'
    BY <1>13 DEF SendListener
  <2>4. GoneIsGone'
    BY <1>13 DEF SendListener
  <2>5. Handshake'
    <3>1. UNCHANGED <<at, aliveOpen, idMaps, goAhead, interrupted>> /\ at # "start"
      BY <1>13 DEF SendListener
    <3>2. \/ helper' = "hold"
          \/ helper' \in {"listen", "dead"} /\ sent' # NAddrs /\ sent' < NAddrs
      <4>1. sent \in Nat /\ got \in Nat /\ got <= sent /\ sent < NAddrs
        BY <1>13 DEF SendListener
      <4> QED
        BY <1>13, <4>1, Counting DEF SendListener
    <3> QED
      BY <3>1, <3>2
  <2> QED
    BY <2>1, <2>2, <2>3, <2>4, <2>5
<1>14. CASE Hold
  BY <1>14 DEF Hold
<1>15. CASE HelperKilled
  BY <1>15 DEF HelperKilled
<1>16. CASE UNCHANGED vars
  BY <1>16 DEF vars
<1> QED
  BY <1>1, <1>2, <1>3, <1>4, <1>5, <1>6, <1>7, <1>8, <1>9, <1>10, <1>11,
     <1>12, <1>13, <1>14, <1>15, <1>16 DEF Next, Run, Helper

THEOREM Invariance == Spec => []IInv
<1>1. Init => IInv
  <2> SUFFICES ASSUME Init PROVE IInv
    OBVIOUS
  <2> USE DEF Init
  <2>1. TypeOK
    <3>1. 0 <= NAddrs
      BY NAddrsOK
    <3>2. got = 0 /\ sent = 0
      OBVIOUS
    <3>3. got \in Nat /\ sent \in Nat /\ got <= sent /\ sent <= NAddrs
      BY <3>1, <3>2
    <3> QED
      BY <3>3 DEF TypeOK
  <2>2. HeldIsLive /\ StageTwoMapped /\ GoneIsGone
    BY DEF HeldIsLive, StageTwoMapped, GoneIsGone
  <2>3. Handshake
    BY Counting DEF Handshake
  <2> QED
    BY <2>1, <2>2, <2>3 DEF IInv
<1>2. IInv /\ [Next]_vars => IInv'
  BY InductiveStep
<1> QED
  BY <1>1, <1>2, PTL DEF Spec

\* A run that has its listeners has all of them, and a helper that holds the
\* namespaces, for any number of listeners.
THEOREM HeldLive == Spec => []HeldIsLive
<1>1. IInv => HeldIsLive
  BY DEF IInv
<1> QED
  BY <1>1, Invariance, PTL

\* A run that has stopped its helper, or failed to start it, has none left.
THEOREM Gone == Spec => []GoneIsGone
<1>1. IInv => GoneIsGone
  BY DEF IInv
<1> QED
  BY <1>1, Invariance, PTL

\* Stage two never executes without its ID map.
THEOREM Mapped == Spec => []StageTwoMapped
<1>1. IInv => StageTwoMapped
  BY DEF IInv
<1> QED
  BY <1>1, Invariance, PTL

\* No more listeners arrive than were sent, and no more are sent than asked for.
THEOREM TypeCorrect == Spec => []TypeOK
<1>1. IInv => TypeOK
  BY DEF IInv
<1> QED
  BY <1>1, Invariance, PTL
=============================================================================
