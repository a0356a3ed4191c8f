------------------------- MODULE SupervisionProofs -------------------------
(***************************************************************************)
(* The processes that a session runs and the supervisor that runs them.    *)
(*                                                                         *)
(* First, what a monitored process leaves behind, for any number of calls  *)
(* and crashes.  The invariants that carry the proof: the channel between  *)
(* the controller and the broker holds only what the protocol sends;       *)
(* whatever runs was recorded before it could run; and what the broker     *)
(* reported in its acknowledgement does not change any more.               *)
(*                                                                         *)
(* Then, that the recovery daemon keeps a live owner, for any number of    *)
(* supervisors, rollovers and failures.  The invariant: while no           *)
(* restoration was planned beside a live supervisor, an open restoration   *)
(* means that none lives, and a replacement that lives holds the claim it  *)
(* was spawned for or has settled it.                                      *)
(***************************************************************************)
EXTENDS MonitoredProcess, OwnerRecovery, TLAPS

Carries(s, m) == \E i \in 1..Len(s) : s[i] = m

(* What the proofs need of the types.                                      *)
ChannelInv ==
  /\ toBroker \in Seq(Messages)
  /\ toController \in Seq(Reports)
  /\ seen \in 0..2

(* The types of the flags, and of everything but them and the channel.     *)
FlagsInv ==
  /\ acked \in BOOLEAN /\ flaw \in BOOLEAN /\ fallback \in BOOLEAN /\ conn \in BOOLEAN
  /\ stuck \in BOOLEAN /\ foreign \in BOOLEAN /\ hurt \in BOOLEAN /\ brkKilled \in BOOLEAN

ShapeInv ==
  /\ ctl \in {"idle", "spawned", "launching", "launched", "armed", "closing", "dead", "reaping"}
  /\ cause \in {"none", "success", "cancel", "timeout"}
  /\ result \in {"none", "ok", "failed", "cancel", "timeout"}
  /\ brk \in {"none", "waiting", "starting", "attested", "released",
              "converging", "acked", "draining", "gone"}
  /\ tgt \in {"none", "stopped", "running", "gone"}
  /\ dsc \in {"none", "group", "own", "gone"}
  /\ ledger \subseteq {"b", "t", "d"}
  /\ calls \in 0..MaxCalls /\ crashes \in 0..MaxCrashes

(* A launch was preceded by the record of the broker, and a release by     *)
(* that of the target; a broker that is not published has been told        *)
(* nothing.                                                                *)
RecordInv ==
  /\ (TargetUp \/ dsc = "group") => "b" \in ledger
  /\ tgt = "running" => "t" \in ledger
  /\ BrokerUp /\ Carries(toBroker, "launch") => "b" \in ledger
  /\ BrokerUp /\ Carries(toBroker, "release") => "t" \in ledger
  /\ ctl = "spawned" => /\ toBroker = <<>> /\ tgt = "none" /\ dsc = "none"
                        /\ brk \in {"waiting", "gone"}

(* Once the broker has sent its acknowledgement it discovers nothing more, *)
(* and a controller that has heard it has stored what was attested.        *)
ReportInv ==
  /\ ctl = "spawned" => toController = <<>> /\ ~acked /\ dsc = "none" /\ seen = 0
  /\ acked \/ Carries(toController, "ack") => brk \in {"acked", "draining", "gone"}
  /\ seen > 0 => dsc # "none"
  /\ Waiting /\ dsc # "none" => "t" \in ledger
  /\ Waiting /\ acked /\ seen = 2 => "d" \in ledger

(* A success is the outcome of the last call until the next one begins.    *)
SuccessInv ==
  /\ SuccessLeavesNothing
  /\ result = "ok" => ctl \in {"idle", "dead"}

(* A group number is taken only when nobody is left in the group, and      *)
(* nobody joins a group without a member.                                  *)
NumberInv ==
  /\ ForeignUntouched
  /\ foreign => ~BrokerUp /\ ~TargetUp /\ dsc # "group"


LEMMA CarriesHead ==
  ASSUME NEW S, NEW s \in Seq(S), s # <<>>
  PROVE  Carries(s, Head(s))
BY 1 \in 1..Len(s) DEF Carries

LEMMA CarriesTail ==
  ASSUME NEW S, NEW s \in Seq(S), s # <<>>, NEW m, Carries(Tail(s), m)
  PROVE  Carries(s, m)
<1>1. PICK i \in 1..Len(Tail(s)) : Tail(s)[i] = m
  BY DEF Carries
<1>2. i + 1 \in 1..Len(s) /\ s[i + 1] = m
  BY <1>1
<1> QED
  BY <1>2 DEF Carries

LEMMA CarriesAppend ==
  ASSUME NEW S, NEW s \in Seq(S), NEW n \in S, NEW m, Carries(Append(s, n), m)
  PROVE  Carries(s, m) \/ m = n
<1>1. PICK i \in 1..Len(Append(s, n)) : Append(s, n)[i] = m
  BY DEF Carries
<1>2. CASE i = Len(s) + 1
  BY <1>1, <1>2
<1>3. CASE i \in 1..Len(s)
  BY <1>1, <1>3 DEF Carries
<1> QED
  BY <1>1, <1>2, <1>3

LEMMA CarriesNothing ==
  ASSUME NEW m
  PROVE  ~Carries(<<>>, m)
BY DEF Carries

(* What the four ways to use the channel do to it.                         *)
LEMMA SendEffect ==
  ASSUME ChannelInv, NEW m \in Messages, Send(m)
  PROVE  /\ toBroker' \in Seq(Messages)
         /\ \A n : Carries(toBroker', n) => Carries(toBroker, n) \/ m = n
<1>1. CASE BrokerUp
  <2>1. toBroker' = Append(toBroker, m)
    BY <1>1 DEF Send
  <2> QED
    BY <2>1, CarriesAppend DEF ChannelInv
<1>2. CASE ~BrokerUp
  BY <1>2 DEF Send, ChannelInv
<1> QED
  BY <1>1, <1>2

LEMMA ToldEffect ==
  ASSUME ChannelInv, NEW m, Told(m)
  PROVE  /\ toBroker' \in Seq(Messages)
         /\ Carries(toBroker, m)
         /\ \A n : Carries(toBroker', n) => Carries(toBroker, n)
<1>1. toBroker # <<>> /\ Head(toBroker) = m /\ toBroker' = Tail(toBroker)
  BY DEF Told
<1>2. toBroker \in Seq(Messages)
  BY DEF ChannelInv
<1> QED
  BY <1>1, <1>2, CarriesHead, CarriesTail

LEMMA SayEffect ==
  ASSUME ChannelInv, NEW m \in Reports, Say(m)
  PROVE  /\ toController' \in Seq(Reports)
         /\ \A n : Carries(toController', n) => Carries(toController, n) \/ m = n
<1>1. CASE conn
  <2>1. toController' = Append(toController, m)
    BY <1>1 DEF Say
  <2> QED
    BY <2>1, CarriesAppend DEF ChannelInv
<1>2. CASE ~conn
  BY <1>2 DEF Say, ChannelInv
<1> QED
  BY <1>1, <1>2

LEMMA HeardEffect ==
  ASSUME ChannelInv, NEW m, Heard(m)
  PROVE  /\ Waiting
         /\ toController' \in Seq(Reports)
         /\ Carries(toController, m)
         /\ \A n : Carries(toController', n) => Carries(toController, n)
<1>1. /\ Waiting /\ toController # <<>> /\ Head(toController) = m
      /\ toController' = Tail(toController)
  BY DEF Heard
<1>2. toController \in Seq(Reports)
  BY DEF ChannelInv
<1> QED
  BY <1>1, <1>2, CarriesHead, CarriesTail

LEMMA PublishEffect ==
  ASSUME Publish
  PROVE  /\ toBroker' \in Seq(Messages)
         /\ \A n : Carries(toBroker', n) => n = "launch"
<1>1. CASE BrokerUp
  <2>1. toBroker' = <<"launch">>
    BY <1>1 DEF Publish
  <2>2. <<"launch">> \in Seq(Messages)
    BY DEF Messages
  <2>3. ASSUME NEW n, Carries(<<"launch">>, n) PROVE n = "launch"
    BY <2>3 DEF Carries
  <2> QED
    BY <2>1, <2>2, <2>3
<1>2. CASE ~BrokerUp
  BY <1>2, CarriesNothing DEF Publish
<1> QED
  BY <1>1, <1>2

(* The channel carries only the messages of the protocol.                  *)
LEMMA ChannelStep ==
  ChannelInv /\ [MPNext]_mpVars => ChannelInv'
<1> SUFFICES ASSUME ChannelInv, [MPNext]_mpVars PROVE ChannelInv'
  OBVIOUS
<1> USE DEF mpVars, ctlVars, brkVars, treeVars, ipc, outside
<1> USE DEF ChannelInv, Messages, Reports
<1>1. CASE SpawnBroker
  BY <1>1 DEF SpawnBroker
<1>2. CASE SpawnRefused
  BY <1>2 DEF SpawnRefused
<1>3. CASE Publish
  BY <1>3, PublishEffect DEF Publish
<1>4. CASE PublishFails
  BY <1>4 DEF PublishFails
<1>5. CASE OnLaunched
  BY <1>5, SendEffect, HeardEffect DEF OnLaunched, RequestShutdown
<1>6. CASE OnReleased
  BY <1>6, HeardEffect DEF OnReleased
<1>7. CASE OnDescendants
  BY <1>7, HeardEffect DEF OnDescendants
<1>8. CASE Terminate
  BY <1>8, SendEffect DEF Terminate, RequestShutdown
<1>9. CASE OnAck
  BY <1>9, SendEffect, HeardEffect DEF OnAck
<1>10. CASE FallbackKill
  BY <1>10 DEF FallbackKill, SignalAttestedGroup, KillGroup, Attested
<1>11. CASE Finalize
  BY <1>11 DEF Finalize, Attested
<1>12. CASE BrokerLaunch
  BY <1>12, ToldEffect DEF BrokerLaunch
<1>13. CASE BrokerAttests
  BY <1>13, SayEffect DEF BrokerAttests
<1>14. CASE BrokerRelease
  BY <1>14, ToldEffect, SayEffect DEF BrokerRelease
<1>15. CASE Discover
  BY <1>15, SayEffect DEF Discover
<1>16. CASE BeginShutdown
  BY <1>16, ToldEffect DEF BeginShutdown
<1>17. CASE BrokerIgnores
  BY <1>17, ToldEffect DEF BrokerIgnores
<1>18. CASE Converge
  BY <1>18, SayEffect DEF Converge
<1>19. CASE ExecuteShutdown
  BY <1>19, ToldEffect DEF ExecuteShutdown
<1>20. CASE BrokerDrains
  BY <1>20 DEF BrokerDrains
<1>21. CASE BrokerGivesUp
  BY <1>21 DEF BrokerGivesUp
<1>22. CASE Fork
  BY <1>22 DEF Fork
<1>23. CASE TargetExits
  BY <1>23 DEF TargetExits
<1>24. CASE DescendantExits
  BY <1>24 DEF DescendantExits
<1>25. CASE BrokerHangs
  BY <1>25 DEF BrokerHangs
<1>26. CASE BrokerKilled
  BY <1>26 DEF BrokerKilled
<1>27. CASE NumberReused
  BY <1>27 DEF NumberReused
<1>28. CASE ForeignExits
  BY <1>28 DEF ForeignExits
<1>29. CASE ControllerDies
  BY <1>29 DEF ControllerDies
<1>30. CASE NextController
  BY <1>30 DEF NextController
<1>31. CASE ReapLedger
  BY <1>31 DEF ReapLedger
<1>32. CASE ClearRecovered
  BY <1>32 DEF ClearRecovered
<1>33. CASE UNCHANGED mpVars
  BY <1>33
<1> QED
  BY <1>1, <1>2, <1>3, <1>4, <1>5, <1>6, <1>7, <1>8, <1>9, <1>10, <1>11, <1>12, <1>13, <1>14,
     <1>15, <1>16, <1>17, <1>18, <1>19, <1>20, <1>21, <1>22, <1>23, <1>24, <1>25, <1>26, <1>27,
     <1>28, <1>29, <1>30, <1>31, <1>32, <1>33
  DEF MPNext, ControllerStep, BrokerStep

(* What runs was recorded first.                                           *)
LEMMA RecordStep ==
  ChannelInv /\ RecordInv /\ [MPNext]_mpVars => RecordInv'
<1> SUFFICES ASSUME ChannelInv, RecordInv, [MPNext]_mpVars PROVE RecordInv'
  OBVIOUS
<1> USE DEF mpVars, ctlVars, brkVars, treeVars, ipc, outside
<1> USE DEF RecordInv, Messages, Reports, BrokerUp, TargetUp, DescUp, GroupAlive, Waiting,
            BrokerSteps, Absent
<1>1. CASE SpawnBroker
  BY <1>1, CarriesNothing DEF SpawnBroker
<1>2. CASE SpawnRefused
  BY <1>2, CarriesNothing DEF SpawnRefused
<1>3. CASE Publish
  BY <1>3, PublishEffect, CarriesNothing DEF Publish
<1>4. CASE PublishFails
  BY <1>4, CarriesNothing DEF PublishFails
<1>5. CASE OnLaunched
  BY <1>5, SendEffect, HeardEffect, CarriesNothing DEF OnLaunched, RequestShutdown
<1>6. CASE OnReleased
  BY <1>6, HeardEffect, CarriesNothing DEF OnReleased
<1>7. CASE OnDescendants
  BY <1>7, HeardEffect, CarriesNothing DEF OnDescendants
<1>8. CASE Terminate
  BY <1>8, SendEffect, CarriesNothing DEF Terminate, RequestShutdown
<1>9. CASE OnAck
  BY <1>9, SendEffect, HeardEffect, CarriesNothing DEF OnAck
<1>10. CASE FallbackKill
  BY <1>10, CarriesNothing DEF FallbackKill, SignalAttestedGroup, KillGroup, Attested
<1>11. CASE Finalize
  BY <1>11, CarriesNothing DEF Finalize, Attested
<1>12. CASE BrokerLaunch
  BY <1>12, ToldEffect, CarriesNothing DEF BrokerLaunch
<1>13. CASE BrokerAttests
  BY <1>13, SayEffect, CarriesNothing DEF BrokerAttests
<1>14. CASE BrokerRelease
  BY <1>14, ToldEffect, SayEffect, CarriesNothing DEF BrokerRelease
<1>15. CASE Discover
  BY <1>15, SayEffect, CarriesNothing DEF Discover
<1>16. CASE BeginShutdown
  BY <1>16, ToldEffect, CarriesNothing DEF BeginShutdown
<1>17. CASE BrokerIgnores
  BY <1>17, ToldEffect, CarriesNothing DEF BrokerIgnores
<1>18. CASE Converge
  BY <1>18, SayEffect, CarriesNothing DEF Converge
<1>19. CASE ExecuteShutdown
  BY <1>19, ToldEffect, CarriesNothing DEF ExecuteShutdown
<1>20. CASE BrokerDrains
  BY <1>20, CarriesNothing DEF BrokerDrains
<1>21. CASE BrokerGivesUp
  BY <1>21, CarriesNothing DEF BrokerGivesUp
<1>22. CASE Fork
  BY <1>22, CarriesNothing DEF Fork
<1>23. CASE TargetExits
  BY <1>23, CarriesNothing DEF TargetExits
<1>24. CASE DescendantExits
  BY <1>24, CarriesNothing DEF DescendantExits
<1>25. CASE BrokerHangs
  BY <1>25, CarriesNothing DEF BrokerHangs
<1>26. CASE BrokerKilled
  BY <1>26, CarriesNothing DEF BrokerKilled
<1>27. CASE NumberReused
  BY <1>27, CarriesNothing DEF NumberReused
<1>28. CASE ForeignExits
  BY <1>28, CarriesNothing DEF ForeignExits
<1>29. CASE ControllerDies
  BY <1>29, CarriesNothing DEF ControllerDies
<1>30. CASE NextController
  BY <1>30, CarriesNothing DEF NextController
<1>31. CASE ReapLedger
  BY <1>31, CarriesNothing DEF ReapLedger
<1>32. CASE ClearRecovered
  BY <1>32, CarriesNothing DEF ClearRecovered
<1>33. CASE UNCHANGED mpVars
  BY <1>33
<1> QED
  BY <1>1, <1>2, <1>3, <1>4, <1>5, <1>6, <1>7, <1>8, <1>9, <1>10, <1>11, <1>12, <1>13, <1>14,
     <1>15, <1>16, <1>17, <1>18, <1>19, <1>20, <1>21, <1>22, <1>23, <1>24, <1>25, <1>26, <1>27,
     <1>28, <1>29, <1>30, <1>31, <1>32, <1>33
  DEF MPNext, ControllerStep, BrokerStep

(* A report that was heard is stored and stays complete.                   *)
LEMMA ReportStep ==
  ChannelInv /\ RecordInv /\ ReportInv /\ [MPNext]_mpVars => ReportInv'
<1> SUFFICES ASSUME ChannelInv, RecordInv, ReportInv, [MPNext]_mpVars PROVE ReportInv'
  OBVIOUS
<1> USE DEF mpVars, ctlVars, brkVars, treeVars, ipc, outside
<1> USE DEF RecordInv, ReportInv, Messages, Reports, BrokerUp, TargetUp, DescUp, GroupAlive,
            Waiting, BrokerSteps, Absent
<1>1. CASE SpawnBroker
  BY <1>1, CarriesNothing DEF SpawnBroker
<1>2. CASE SpawnRefused
  BY <1>2, CarriesNothing DEF SpawnRefused
<1>3. CASE Publish
  BY <1>3, PublishEffect, CarriesNothing DEF Publish
<1>4. CASE PublishFails
  BY <1>4, CarriesNothing DEF PublishFails
<1>5. CASE OnLaunched
  BY <1>5, SendEffect, HeardEffect, CarriesNothing DEF OnLaunched, RequestShutdown
<1>6. CASE OnReleased
  BY <1>6, HeardEffect, CarriesNothing DEF OnReleased
<1>7. CASE OnDescendants
  BY <1>7, HeardEffect, CarriesNothing DEF OnDescendants
<1>8. CASE Terminate
  BY <1>8, SendEffect, CarriesNothing DEF Terminate, RequestShutdown
<1>9. CASE OnAck
  BY <1>9, SendEffect, HeardEffect, CarriesNothing DEF OnAck
<1>10. CASE FallbackKill
  BY <1>10, CarriesNothing DEF FallbackKill, SignalAttestedGroup, KillGroup, Attested
<1>11. CASE Finalize
  BY <1>11, CarriesNothing DEF Finalize, Attested
<1>12. CASE BrokerLaunch
  BY <1>12, ToldEffect, CarriesNothing DEF BrokerLaunch
<1>13. CASE BrokerAttests
  BY <1>13, SayEffect, CarriesNothing DEF BrokerAttests
<1>14. CASE BrokerRelease
  BY <1>14, ToldEffect, SayEffect, CarriesNothing DEF BrokerRelease
<1>15. CASE Discover
  BY <1>15, SayEffect, CarriesNothing DEF Discover
<1>16. CASE BeginShutdown
  BY <1>16, ToldEffect, CarriesNothing DEF BeginShutdown
<1>17. CASE BrokerIgnores
  BY <1>17, ToldEffect, CarriesNothing DEF BrokerIgnores
<1>18. CASE Converge
  BY <1>18, SayEffect, CarriesNothing DEF Converge
<1>19. CASE ExecuteShutdown
  BY <1>19, ToldEffect, CarriesNothing DEF ExecuteShutdown
<1>20. CASE BrokerDrains
  BY <1>20, CarriesNothing DEF BrokerDrains
<1>21. CASE BrokerGivesUp
  BY <1>21, CarriesNothing DEF BrokerGivesUp
<1>22. CASE Fork
  BY <1>22, CarriesNothing DEF Fork
<1>23. CASE TargetExits
  BY <1>23, CarriesNothing DEF TargetExits
<1>24. CASE DescendantExits
  BY <1>24, CarriesNothing DEF DescendantExits
<1>25. CASE BrokerHangs
  BY <1>25, CarriesNothing DEF BrokerHangs
<1>26. CASE BrokerKilled
  BY <1>26, CarriesNothing DEF BrokerKilled
<1>27. CASE NumberReused
  BY <1>27, CarriesNothing DEF NumberReused
<1>28. CASE ForeignExits
  BY <1>28, CarriesNothing DEF ForeignExits
<1>29. CASE ControllerDies
  BY <1>29, CarriesNothing DEF ControllerDies
<1>30. CASE NextController
  BY <1>30, CarriesNothing DEF NextController
<1>31. CASE ReapLedger
  BY <1>31, CarriesNothing DEF ReapLedger
<1>32. CASE ClearRecovered
  BY <1>32, CarriesNothing DEF ClearRecovered
<1>33. CASE UNCHANGED mpVars
  BY <1>33
<1> QED
  BY <1>1, <1>2, <1>3, <1>4, <1>5, <1>6, <1>7, <1>8, <1>9, <1>10, <1>11, <1>12, <1>13, <1>14,
     <1>15, <1>16, <1>17, <1>18, <1>19, <1>20, <1>21, <1>22, <1>23, <1>24, <1>25, <1>26, <1>27,
     <1>28, <1>29, <1>30, <1>31, <1>32, <1>33
  DEF MPNext, ControllerStep, BrokerStep

(* Nothing happens to a call that ended in success.                        *)
LEMMA SuccessStep ==
  ChannelInv /\ RecordInv /\ ReportInv /\ SuccessInv /\ [MPNext]_mpVars => SuccessInv'
<1> SUFFICES ASSUME ChannelInv, RecordInv, ReportInv, SuccessInv, [MPNext]_mpVars PROVE SuccessInv'
  OBVIOUS
<1> USE DEF mpVars, ctlVars, brkVars, treeVars, ipc, outside
<1> USE DEF RecordInv, ReportInv, SuccessInv, SuccessLeavesNothing, BrokerUp, TargetUp,
            DescUp, GroupAlive, Waiting, BrokerSteps, Absent
<1>1. CASE SpawnBroker
  BY <1>1 DEF SpawnBroker
<1>2. CASE SpawnRefused
  BY <1>2 DEF SpawnRefused
<1>3. CASE Publish
  BY <1>3, PublishEffect DEF Publish
<1>4. CASE PublishFails
  BY <1>4 DEF PublishFails
<1>5. CASE OnLaunched
  BY <1>5, SendEffect, HeardEffect DEF OnLaunched, RequestShutdown
<1>6. CASE OnReleased
  BY <1>6, HeardEffect DEF OnReleased
<1>7. CASE OnDescendants
  BY <1>7, HeardEffect DEF OnDescendants
<1>8. CASE Terminate
  BY <1>8, SendEffect DEF Terminate, RequestShutdown
<1>9. CASE OnAck
  BY <1>9, SendEffect, HeardEffect DEF OnAck
<1>10. CASE FallbackKill
  BY <1>10 DEF FallbackKill, SignalAttestedGroup, KillGroup, Attested
<1>11. CASE Finalize
  <2>1. CASE Attested
    <3>1. ledger' = {} /\ ctl' = "idle" /\ UNCHANGED <<brk, tgt, dsc, seen>>
      BY <1>11, <2>1 DEF Finalize
    <3>2. ~BrokerUp /\ ~TargetUp /\ dsc # "group" /\ ("d" \in ledger => ~DescUp)
      BY <2>1 DEF Attested
    <3>3. seen = 2 => "d" \in ledger
      BY <1>11, <2>1 DEF Finalize, Attested
    <3>4. seen < 2 \/ seen = 2
      BY DEF ChannelInv
    <3> QED
      BY <3>1, <3>2, <3>3, <3>4
  <2>2. CASE ~Attested
    <3>1. result' # "ok"
      BY <1>11, <2>2 DEF Finalize
    <3> QED
      BY <3>1
  <2> QED
    BY <2>1, <2>2
<1>12. CASE BrokerLaunch
  BY <1>12, ToldEffect DEF BrokerLaunch
<1>13. CASE BrokerAttests
  BY <1>13, SayEffect DEF BrokerAttests
<1>14. CASE BrokerRelease
  BY <1>14, ToldEffect, SayEffect DEF BrokerRelease
<1>15. CASE Discover
  BY <1>15, SayEffect DEF Discover
<1>16. CASE BeginShutdown
  BY <1>16, ToldEffect DEF BeginShutdown
<1>17. CASE BrokerIgnores
  BY <1>17, ToldEffect DEF BrokerIgnores
<1>18. CASE Converge
  BY <1>18, SayEffect DEF Converge
<1>19. CASE ExecuteShutdown
  BY <1>19, ToldEffect DEF ExecuteShutdown
<1>20. CASE BrokerDrains
  BY <1>20 DEF BrokerDrains
<1>21. CASE BrokerGivesUp
  BY <1>21 DEF BrokerGivesUp
<1>22. CASE Fork
  BY <1>22 DEF Fork
<1>23. CASE TargetExits
  BY <1>23 DEF TargetExits
<1>24. CASE DescendantExits
  BY <1>24 DEF DescendantExits
<1>25. CASE BrokerHangs
  BY <1>25 DEF BrokerHangs
<1>26. CASE BrokerKilled
  BY <1>26 DEF BrokerKilled
<1>27. CASE NumberReused
  BY <1>27 DEF NumberReused
<1>28. CASE ForeignExits
  BY <1>28 DEF ForeignExits
<1>29. CASE ControllerDies
  BY <1>29 DEF ControllerDies
<1>30. CASE NextController
  BY <1>30 DEF NextController
<1>31. CASE ReapLedger
  BY <1>31 DEF ReapLedger
<1>32. CASE ClearRecovered
  BY <1>32 DEF ClearRecovered
<1>33. CASE UNCHANGED mpVars
  BY <1>33
<1> QED
  BY <1>1, <1>2, <1>3, <1>4, <1>5, <1>6, <1>7, <1>8, <1>9, <1>10, <1>11, <1>12, <1>13, <1>14,
     <1>15, <1>16, <1>17, <1>18, <1>19, <1>20, <1>21, <1>22, <1>23, <1>24, <1>25, <1>26, <1>27,
     <1>28, <1>29, <1>30, <1>31, <1>32, <1>33
  DEF MPNext, ControllerStep, BrokerStep

(* Every variable keeps its shape.                                         *)
LEMMA ShapeStep ==
  ChannelInv /\ ShapeInv /\ [MPNext]_mpVars => ShapeInv'
<1> SUFFICES ASSUME ChannelInv, ShapeInv, [MPNext]_mpVars PROVE ShapeInv'
  OBVIOUS
<1> USE DEF mpVars, ctlVars, brkVars, treeVars, ipc, outside
<1> USE DEF ShapeInv, BrokerUp, TargetUp, DescUp, GroupAlive, Waiting, BrokerSteps, Absent
<1>1. CASE SpawnBroker
  BY <1>1, BoundsAssumption DEF SpawnBroker
<1>2. CASE SpawnRefused
  BY <1>2, BoundsAssumption DEF SpawnRefused
<1>3. CASE Publish
  BY <1>3, PublishEffect, BoundsAssumption DEF Publish
<1>4. CASE PublishFails
  BY <1>4, BoundsAssumption DEF PublishFails
<1>5. CASE OnLaunched
  BY <1>5, SendEffect, HeardEffect, BoundsAssumption DEF OnLaunched, RequestShutdown
<1>6. CASE OnReleased
  BY <1>6, HeardEffect, BoundsAssumption DEF OnReleased
<1>7. CASE OnDescendants
  BY <1>7, HeardEffect, BoundsAssumption DEF OnDescendants
<1>8. CASE Terminate
  BY <1>8, SendEffect, BoundsAssumption DEF Terminate, RequestShutdown
<1>9. CASE OnAck
  <2>1. ledger' = ledger \/ ledger' = ledger \cup {"d"}
    BY <1>9, Zenon DEF OnAck
  <2>2. UNCHANGED <<ctl, cause, result, brk, tgt, dsc, calls, crashes>>
    BY <1>9, Zenon DEF OnAck
  <2>3. ledger' \subseteq {"b", "t", "d"}
    BY <2>1
  <2>4. /\ ctl' = ctl /\ cause' = cause /\ result' = result /\ brk' = brk
        /\ tgt' = tgt /\ dsc' = dsc /\ calls' = calls /\ crashes' = crashes
    BY <2>2
  <2> QED
    BY <2>3, <2>4
<1>10. CASE FallbackKill
  BY <1>10, BoundsAssumption DEF FallbackKill, SignalAttestedGroup, KillGroup, Attested
<1>11. CASE Finalize
  BY <1>11, BoundsAssumption DEF Finalize, Attested
<1>12. CASE BrokerLaunch
  BY <1>12, ToldEffect, BoundsAssumption DEF BrokerLaunch
<1>13. CASE BrokerAttests
  BY <1>13, SayEffect, BoundsAssumption DEF BrokerAttests
<1>14. CASE BrokerRelease
  BY <1>14, ToldEffect, SayEffect, BoundsAssumption DEF BrokerRelease
<1>15. CASE Discover
  BY <1>15, SayEffect, BoundsAssumption DEF Discover
<1>16. CASE BeginShutdown
  BY <1>16, ToldEffect, BoundsAssumption DEF BeginShutdown
<1>17. CASE BrokerIgnores
  BY <1>17, ToldEffect, BoundsAssumption DEF BrokerIgnores
<1>18. CASE Converge
  BY <1>18, SayEffect, BoundsAssumption DEF Converge
<1>19. CASE ExecuteShutdown
  BY <1>19, ToldEffect, BoundsAssumption DEF ExecuteShutdown
<1>20. CASE BrokerDrains
  BY <1>20, BoundsAssumption DEF BrokerDrains
<1>21. CASE BrokerGivesUp
  BY <1>21, BoundsAssumption DEF BrokerGivesUp
<1>22. CASE Fork
  BY <1>22, BoundsAssumption DEF Fork
<1>23. CASE TargetExits
  BY <1>23, BoundsAssumption DEF TargetExits
<1>24. CASE DescendantExits
  BY <1>24, BoundsAssumption DEF DescendantExits
<1>25. CASE BrokerHangs
  BY <1>25, BoundsAssumption DEF BrokerHangs
<1>26. CASE BrokerKilled
  BY <1>26, BoundsAssumption DEF BrokerKilled
<1>27. CASE NumberReused
  BY <1>27, BoundsAssumption DEF NumberReused
<1>28. CASE ForeignExits
  BY <1>28, BoundsAssumption DEF ForeignExits
<1>29. CASE ControllerDies
  BY <1>29, BoundsAssumption DEF ControllerDies
<1>30. CASE NextController
  BY <1>30, BoundsAssumption DEF NextController
<1>31. CASE ReapLedger
  BY <1>31, BoundsAssumption DEF ReapLedger
<1>32. CASE ClearRecovered
  BY <1>32, BoundsAssumption DEF ClearRecovered
<1>33. CASE UNCHANGED mpVars
  BY <1>33
<1> QED
  BY <1>1, <1>2, <1>3, <1>4, <1>5, <1>6, <1>7, <1>8, <1>9, <1>10, <1>11, <1>12, <1>13, <1>14,
     <1>15, <1>16, <1>17, <1>18, <1>19, <1>20, <1>21, <1>22, <1>23, <1>24, <1>25, <1>26, <1>27,
     <1>28, <1>29, <1>30, <1>31, <1>32, <1>33
  DEF MPNext, ControllerStep, BrokerStep

(* Flags stay flags.                                                       *)
LEMMA FlagsStep ==
  FlagsInv /\ [MPNext]_mpVars => FlagsInv'
<1> SUFFICES ASSUME FlagsInv, [MPNext]_mpVars PROVE FlagsInv'
  OBVIOUS
<1> USE DEF mpVars, ctlVars, brkVars, treeVars, ipc, outside
<1> USE DEF FlagsInv, Heard, Told, Say, Send
<1>1. CASE SpawnBroker
  BY <1>1, Zenon DEF SpawnBroker
<1>2. CASE SpawnRefused
  BY <1>2, Zenon DEF SpawnRefused
<1>3. CASE Publish
  BY <1>3, Zenon DEF Publish
<1>4. CASE PublishFails
  BY <1>4, Zenon DEF PublishFails
<1>5. CASE OnLaunched
  BY <1>5, Zenon DEF OnLaunched, RequestShutdown
<1>6. CASE OnReleased
  BY <1>6, Zenon DEF OnReleased
<1>7. CASE OnDescendants
  BY <1>7, Zenon DEF OnDescendants
<1>8. CASE Terminate
  BY <1>8, Zenon DEF Terminate, RequestShutdown
<1>9. CASE OnAck
  BY <1>9, Zenon DEF OnAck
<1>10. CASE FallbackKill
  BY <1>10, Zenon DEF FallbackKill, SignalAttestedGroup, KillGroup, Attested
<1>11. CASE Finalize
  BY <1>11, Zenon DEF Finalize, Attested
<1>12. CASE BrokerLaunch
  BY <1>12, Zenon DEF BrokerLaunch
<1>13. CASE BrokerAttests
  BY <1>13, Zenon DEF BrokerAttests
<1>14. CASE BrokerRelease
  BY <1>14, Zenon DEF BrokerRelease
<1>15. CASE Discover
  BY <1>15, Zenon DEF Discover
<1>16. CASE BeginShutdown
  BY <1>16, Zenon DEF BeginShutdown
<1>17. CASE BrokerIgnores
  BY <1>17, Zenon DEF BrokerIgnores
<1>18. CASE Converge
  BY <1>18, Zenon DEF Converge
<1>19. CASE ExecuteShutdown
  BY <1>19, Zenon DEF ExecuteShutdown
<1>20. CASE BrokerDrains
  BY <1>20, Zenon DEF BrokerDrains
<1>21. CASE BrokerGivesUp
  BY <1>21, Zenon DEF BrokerGivesUp
<1>22. CASE Fork
  BY <1>22, Zenon DEF Fork
<1>23. CASE TargetExits
  BY <1>23, Zenon DEF TargetExits
<1>24. CASE DescendantExits
  BY <1>24, Zenon DEF DescendantExits
<1>25. CASE BrokerHangs
  BY <1>25, Zenon DEF BrokerHangs
<1>26. CASE BrokerKilled
  BY <1>26, Zenon DEF BrokerKilled
<1>27. CASE NumberReused
  BY <1>27, Zenon DEF NumberReused
<1>28. CASE ForeignExits
  BY <1>28, Zenon DEF ForeignExits
<1>29. CASE ControllerDies
  BY <1>29, Zenon DEF ControllerDies
<1>30. CASE NextController
  BY <1>30, Zenon DEF NextController
<1>31. CASE ReapLedger
  BY <1>31, Zenon DEF ReapLedger
<1>32. CASE ClearRecovered
  BY <1>32, Zenon DEF ClearRecovered
<1>33. CASE UNCHANGED mpVars
  BY <1>33
<1> QED
  BY <1>1, <1>2, <1>3, <1>4, <1>5, <1>6, <1>7, <1>8, <1>9, <1>10, <1>11, <1>12, <1>13, <1>14,
     <1>15, <1>16, <1>17, <1>18, <1>19, <1>20, <1>21, <1>22, <1>23, <1>24, <1>25, <1>26, <1>27,
     <1>28, <1>29, <1>30, <1>31, <1>32, <1>33
  DEF MPNext, ControllerStep, BrokerStep

-----------------------------------------------------------------------------
LEMMA InitInv ==
  MPInit => ChannelInv /\ RecordInv /\ ReportInv /\ SuccessInv /\ NumberInv
BY CarriesNothing
DEF MPInit, ChannelInv, RecordInv, ReportInv, SuccessInv, SuccessLeavesNothing,
    NumberInv, ForeignUntouched, BrokerUp, TargetUp, DescUp, Waiting

(* A group is signalled only while one of its members is there.            *)
LEMMA NumberStep ==
  NumberInv /\ [MPNext]_mpVars => NumberInv'
<1> SUFFICES ASSUME NumberInv, [MPNext]_mpVars PROVE NumberInv'
  OBVIOUS
<1> USE DEF mpVars, ctlVars, brkVars, treeVars, ipc, outside
<1> USE DEF NumberInv, ForeignUntouched, BrokerUp, TargetUp, DescUp, GroupAlive, Waiting,
            BrokerSteps, Absent
<1>1. CASE SpawnBroker
  BY <1>1 DEF SpawnBroker
<1>2. CASE SpawnRefused
  BY <1>2 DEF SpawnRefused
<1>3. CASE Publish
  BY <1>3, PublishEffect DEF Publish
<1>4. CASE PublishFails
  BY <1>4 DEF PublishFails
<1>5. CASE OnLaunched
  BY <1>5, SendEffect, HeardEffect DEF OnLaunched, RequestShutdown
<1>6. CASE OnReleased
  BY <1>6, HeardEffect DEF OnReleased
<1>7. CASE OnDescendants
  BY <1>7, HeardEffect DEF OnDescendants
<1>8. CASE Terminate
  BY <1>8, SendEffect DEF Terminate, RequestShutdown
<1>9. CASE OnAck
  BY <1>9, SendEffect, HeardEffect DEF OnAck
<1>10. CASE FallbackKill
  BY <1>10 DEF FallbackKill, SignalAttestedGroup, KillGroup, Attested
<1>11. CASE Finalize
  BY <1>11 DEF Finalize, Attested
<1>12. CASE BrokerLaunch
  BY <1>12, ToldEffect DEF BrokerLaunch
<1>13. CASE BrokerAttests
  BY <1>13, SayEffect DEF BrokerAttests
<1>14. CASE BrokerRelease
  BY <1>14, ToldEffect, SayEffect DEF BrokerRelease
<1>15. CASE Discover
  BY <1>15, SayEffect DEF Discover
<1>16. CASE BeginShutdown
  BY <1>16, ToldEffect DEF BeginShutdown
<1>17. CASE BrokerIgnores
  BY <1>17, ToldEffect DEF BrokerIgnores
<1>18. CASE Converge
  BY <1>18, SayEffect DEF Converge
<1>19. CASE ExecuteShutdown
  BY <1>19, ToldEffect DEF ExecuteShutdown
<1>20. CASE BrokerDrains
  BY <1>20 DEF BrokerDrains
<1>21. CASE BrokerGivesUp
  BY <1>21 DEF BrokerGivesUp
<1>22. CASE Fork
  BY <1>22 DEF Fork
<1>23. CASE TargetExits
  BY <1>23 DEF TargetExits
<1>24. CASE DescendantExits
  BY <1>24 DEF DescendantExits
<1>25. CASE BrokerHangs
  BY <1>25 DEF BrokerHangs
<1>26. CASE BrokerKilled
  BY <1>26 DEF BrokerKilled
<1>27. CASE NumberReused
  BY <1>27 DEF NumberReused
<1>28. CASE ForeignExits
  BY <1>28 DEF ForeignExits
<1>29. CASE ControllerDies
  BY <1>29 DEF ControllerDies
<1>30. CASE NextController
  BY <1>30 DEF NextController
<1>31. CASE ReapLedger
  BY <1>31 DEF ReapLedger
<1>32. CASE ClearRecovered
  BY <1>32 DEF ClearRecovered
<1>33. CASE UNCHANGED mpVars
  BY <1>33
<1> QED
  BY <1>1, <1>2, <1>3, <1>4, <1>5, <1>6, <1>7, <1>8, <1>9, <1>10, <1>11, <1>12, <1>13, <1>14,
     <1>15, <1>16, <1>17, <1>18, <1>19, <1>20, <1>21, <1>22, <1>23, <1>24, <1>25, <1>26, <1>27,
     <1>28, <1>29, <1>30, <1>31, <1>32, <1>33
  DEF MPNext, ControllerStep, BrokerStep

(* MPTypeOK for any number of calls and crashes: in particular the channel *)
(* carries only what the protocol sends.                                   *)
THEOREM TypeCorrect == MPSpec => []MPTypeOK
<1>1. MPInit => ChannelInv /\ FlagsInv /\ ShapeInv
  <2>1. MPInit => FlagsInv
    BY Zenon DEF MPInit, FlagsInv
  <2>2. MPInit => ShapeInv
    BY BoundsAssumption DEF MPInit, ShapeInv
  <2> QED
    BY <2>1, <2>2, InitInv
<1>2. ChannelInv /\ FlagsInv /\ ShapeInv /\ [MPNext]_mpVars => (ChannelInv /\ FlagsInv /\ ShapeInv)'
  BY ChannelStep, FlagsStep, ShapeStep
<1>3. ChannelInv /\ FlagsInv /\ ShapeInv => MPTypeOK
  BY DEF ChannelInv, FlagsInv, ShapeInv, MPTypeOK
<1> QED
  BY <1>1, <1>2, <1>3, PTL DEF MPSpec

(* TreeIsRecorded for any number of calls and crashes: whatever runs of a  *)
(* tree is on the ledger, so the next controller finds it wherever its     *)
(* predecessor died.                                                       *)
THEOREM TreesAreRecorded == MPSpec => []TreeIsRecorded
<1>1. MPInit => ChannelInv /\ RecordInv
  BY InitInv
<1>2. ChannelInv /\ RecordInv /\ [MPNext]_mpVars => (ChannelInv /\ RecordInv)'
  BY ChannelStep, RecordStep
<1>3. RecordInv => TreeIsRecorded
  BY DEF RecordInv, TreeIsRecorded
<1> QED
  BY <1>1, <1>2, <1>3, PTL DEF MPSpec

(* SuccessLeavesNothing for any number of calls and crashes: a success is  *)
(* reported only over a tree that is gone, but for what no acknowledgement *)
(* could cover.                                                            *)
THEOREM SuccessIsDrained == MPSpec => []SuccessLeavesNothing
<1> DEFINE Inv == ChannelInv /\ RecordInv /\ ReportInv /\ SuccessInv
<1>1. MPInit => Inv
  BY InitInv
<1>2. Inv /\ [MPNext]_mpVars => Inv'
  BY ChannelStep, RecordStep, ReportStep, SuccessStep
<1>3. Inv => SuccessLeavesNothing
  BY DEF SuccessInv
<1> QED
  BY <1>1, <1>2, <1>3, PTL DEF MPSpec

(* ForeignUntouched for any number of calls and crashes: neither the       *)
(* fallback of the controller nor the reaping of a ledger signals a group  *)
(* that has taken the number of a dead one.                                *)
THEOREM GroupsAreAttested == MPSpec => []ForeignUntouched
<1>1. MPInit => NumberInv
  BY InitInv
<1>2. NumberInv => ForeignUntouched
  BY DEF NumberInv
<1> QED
  BY <1>1, <1>2, NumberStep, PTL DEF MPSpec

-----------------------------------------------------------------------------
(* The recovery daemon.                                                    *)

(* A detached session is never found lost: nobody but a tmux pane has a    *)
(* runner to miss.                                                         *)
NoLossInProcess ==
  mode = "process" =>
    /\ st.reason \notin {"lost", "lost orphan"}
    /\ \A p \in Lookers : look[p].what # "lost" /\ (look[p].what \in {"orphan", "late"} => ~look[p].missing)

(* What keeps the supervisors of a detached session apart: a restoration   *)
(* is open only while no supervisor lives, and a replacement that lives    *)
(* holds the claim it was spawned for, or has settled it.                  *)
OneSupervisor == \A s, t \in Sups : Alive(s) /\ Alive(t) => s = t

PlanInv == rest.st \in {"pending", "failed"} => ~SomeAlive

ClaimInv == dm.at = "claimed" => ~SomeAlive /\ RestorerAlive

LaunchInv ==
  dm.at = "launched" =>
    /\ \A s \in Sups : Alive(s) => s = Kid
    /\ Alive(Kid) => MyClaim \/ SettledByKid

OwnerInv == OneSupervisor /\ PlanInv /\ ClaimInv /\ LaunchInv

RecoveryInv ==
  /\ ORTypeOK /\ NoLossInProcess
  /\ mode = "process" /\ ~stale => OwnerInv

LEMMA LookTypes ==
  ASSUME ORTypeOK, NEW p \in Lookers, Look(p)
  PROVE  worker' \in {"none", "own", "stray"} /\ look' \in [Lookers -> Readings]
<1>1. RunnerMissing \in BOOLEAN /\ (~OwnerAlive) \in BOOLEAN
  BY DEF RunnerMissing
<1>2. st.epoch \in Nat
  BY DEF ORTypeOK, States
<1>3. ASSUME NEW what \in {"none", "roll", "late", "lost", "orphan"}, NEW missing \in BOOLEAN,
             Reads(p, what, missing)
      PROVE  look' \in [Lookers -> Readings]
  <2>1. [what |-> what, missing |-> missing, epoch |-> st.epoch] \in Readings
    BY <1>2 DEF Readings
  <2> QED
    BY <1>3, <2>1 DEF ORTypeOK, Reads
<1>4. CASE SeesRollover(p)
  BY <1>1, <1>3, <1>4 DEF SeesRollover, ORTypeOK
<1>5. CASE SeesNoRunner(p)
  BY <1>1, <1>3, <1>5 DEF SeesNoRunner
<1>6. CASE SeesOrphan(p)
  BY <1>1, <1>3, <1>6 DEF SeesOrphan, ORTypeOK
<1>7. CASE SeesNothing(p)
  <2>1. NoLook \in Readings
    BY DEF Readings, NoLook
  <2> QED
    BY <1>7, <2>1 DEF SeesNothing, ORTypeOK
<1> QED
  BY <1>4, <1>5, <1>6, <1>7 DEF Look

LEMMA EpochType ==
  ASSUME ORTypeOK
  PROVE  st.epoch \in Nat
<1>1. st \in States
  BY DEF ORTypeOK
<1> QED
  BY <1>1 DEF States

LEMMA PlanTypes ==
  ASSUME ORTypeOK, NEW kind \in {"loss", "roll"}, Plan(kind)
  PROVE  rest' \in Intents
<1>1. (IF kind = "roll" THEN st.epoch ELSE 0) \in Nat
  BY EpochType
<1> QED
  BY <1>1 DEF Plan, Intents

LEMMA NextEpoch ==
  ASSUME ORTypeOK
  PROVE  [st EXCEPT !.roll = TRUE, !.epoch = @ + 1, !.reason = "rollover"] \in States
<1>1. st \in States
  BY DEF ORTypeOK
<1>2. st.epoch + 1 \in Nat
  BY EpochType
<1> QED
  BY <1>1, <1>2 DEF States

LEMMA UpdateTypes ==
  ASSUME ORTypeOK, NEW p \in Lookers, Update(p)
  PROVE  st' \in States /\ rest' \in Intents /\ late' \in BOOLEAN /\ stale' \in BOOLEAN
<1>1. CASE PlanRestoration(p)
  <2>1. Relaunching \in States
    BY DEF Relaunching, ORTypeOK, States
  <2>2. [rest EXCEPT !.st = "pending"] \in Intents
    BY DEF ORTypeOK, Intents
  <2>3. stale' \in BOOLEAN
    <3>1. (stale \/ SomeAlive \/ RestorerAlive) \in BOOLEAN
      OBVIOUS
    <3> QED
      BY <1>1, <3>1 DEF PlanRestoration, ORTypeOK
  <2>4. rest' \in Intents
    BY <1>1, <2>2, PlanTypes DEF PlanRestoration, ORTypeOK
  <2> QED
    BY <1>1, <2>1, <2>3, <2>4 DEF PlanRestoration, ORTypeOK
<1>2. CASE MarkLost(p)
  BY <1>2 DEF MarkLost, ORTypeOK, States
<1>3. CASE MarkOrphan(p)
  BY <1>3 DEF MarkOrphan, ORTypeOK, States
<1>4. CASE RepairRollover(p)
  <2>1. st' \in States
    BY <1>4, NextEpoch DEF RepairRollover, ORTypeOK
  <2> QED
    BY <1>4, <2>1 DEF RepairRollover, ORTypeOK
<1> QED
  BY <1>1, <1>2, <1>3, <1>4 DEF Update

LEMMA FailedTypes ==
  ASSUME ORTypeOK, NEW unsafe \in BOOLEAN, Failed(unsafe)
  PROVE  st' \in States /\ rest' \in Intents
<1>1. st' \in States
  BY DEF Failed, ORTypeOK, States
<1>2. rest' \in Intents
  BY DEF Failed, ORTypeOK, Intents
<1> QED
  BY <1>1, <1>2

LEMMA ReapTypes ==
  ASSUME ORTypeOK, NEW s, ReapSup(s)
  PROVE  /\ sup' \in [Sups -> {"booting", "up", "gone"}] /\ exec' \in Executors
         /\ worker' \in {"none", "own", "stray"}
<1>1. NoExec \in Executors
  BY ORBoundsAssumption DEF NoExec, Executors
<1> QED
  BY <1>1 DEF ReapSup, ORTypeOK

LEMMA ORTypeStep == ORTypeOK /\ [ORNext]_orVars => ORTypeOK'
<1> SUFFICES ASSUME ORTypeOK, [ORNext]_orVars PROVE ORTypeOK'
  OBVIOUS
<1> USE ORBoundsAssumption
<1>none. NoExec \in Executors /\ NoLook \in Readings
  BY DEF NoExec, Executors, NoLook, Readings
<1>look. "daemon" \in Lookers /\ "command" \in Lookers
  BY DEF Lookers
<1>ens. Ensured \in Daemons
  BY DEF Ensured, ORTypeOK, Daemons
<1>at. ASSUME NEW a, NEW b \in {"none", "pass", "reaped", "prepare"}, DaemonAt(a, b)
       PROVE  dm' \in Daemons
  BY <1>at DEF DaemonAt, ORTypeOK, Daemons
<1>1. ASSUME NEW s \in Sups, Register(s) PROVE ORTypeOK'
  <2>1. ASSUME NEW settles \in BOOLEAN
        PROVE  [st EXCEPT !.owner = s, !.required = st.required /\ ~settles] \in States
    <3>1. s \in 0..MaxSups /\ (st.required /\ ~settles) \in BOOLEAN
      BY DEF Sups
    <3>2. st \in States
      BY DEF ORTypeOK
    <3> QED
      BY <3>1, <3>2 DEF States
  <2>3. st' \in States
    BY <1>1, <2>1 DEF Register, ORTypeOK
  <2>2. rest' \in Intents
    BY <1>1 DEF Register, ORTypeOK, Intents
  <2> QED
    BY <1>1, <2>2, <2>3, <1>ens DEF Register, ORTypeOK
<1>2. ASSUME NEW s \in Sups, EnsureDaemon(s) PROVE ORTypeOK'
  BY <1>2, <1>ens DEF ORTypeOK, EnsureDaemon, procVars
<1>3. ASSUME NEW s \in Sups, Launch(s) PROVE ORTypeOK'
  <2>1. exec' \in Executors
    BY <1>3 DEF Launch, Executors, Sups
  <2> QED
    BY <1>3, <2>1 DEF Launch, ORTypeOK
<1>4. ASSUME NEW s \in Sups, Leave(s) PROVE ORTypeOK'
  BY <1>4 DEF ORTypeOK, Leave
<1>5. ASSUME NEW s \in Sups, AfterCrash(s) PROVE ORTypeOK'
  <2>1. st' \in States
    BY <1>5 DEF AfterCrash, ORTypeOK, States
  <2> QED
    BY <1>5, <2>1, <1>none DEF AfterCrash, ORTypeOK
<1>6. CASE ReapBeforeRun
  <2>1. st' \in States
    BY <1>6 DEF ReapBeforeRun, ORTypeOK, States
  <2> QED
    BY <1>6, <2>1, <1>none DEF ReapBeforeRun, ORTypeOK
<1>7. CASE Consume
  <2>1. st' \in States
    BY <1>7 DEF Consume, ORTypeOK, States
  <2>2. exec' \in Executors
    BY <1>7 DEF Consume, ORTypeOK, Executors
  <2> QED
    BY <1>7, <2>1, <2>2 DEF Consume, ORTypeOK
<1>8. CASE Enter
  <2>1. st' \in States
    BY <1>8 DEF Enter, ORTypeOK, States
  <2>2. exec' \in Executors
    BY <1>8, <1>none DEF Enter, ORTypeOK, Executors
  <2> QED
    BY <1>8, <2>1, <2>2 DEF Enter, ORTypeOK
<1>9. CASE StartWorker \/ WorkerEnds
  BY <1>9 DEF ORTypeOK, StartWorker, WorkerEnds
<1>10. CASE Rollover
  <2>1. st' \in States
    BY <1>10, NextEpoch DEF Rollover, ORTypeOK
  <2> QED
    BY <1>10, <2>1, <1>none DEF Rollover, ORTypeOK
<1>11. CASE ExecutorExits
  <2>1. st' \in States
    <3>1. PICK why \in {"other", "done"} :
            st' = [st EXCEPT !.active = FALSE, !.runner = FALSE,
                             !.reason = IF st.active THEN why ELSE @,
                             !.done = @ \/ (why = "done" /\ st.active)]
      BY <1>11 DEF ExecutorExits
    <3>2. (st.done \/ (why = "done" /\ st.active)) \in BOOLEAN
      OBVIOUS
    <3> QED
      BY <3>1, <3>2 DEF ORTypeOK, States
  <2> QED
    BY <1>11, <2>1, <1>none DEF ExecutorExits, ORTypeOK
<1>12. CASE CommandLooks
  <2>1. events' \in 0..MaxEvents
    BY <1>12 DEF CommandLooks, Event, ORTypeOK
  <2> QED
    BY <1>12, <2>1, <1>look, LookTypes DEF ORTypeOK, CommandLooks
<1>13. CASE CommandUpdates
  BY <1>13, <1>none, <1>look, UpdateTypes DEF ORTypeOK, CommandUpdates, procVars
<1>14. CASE DaemonStarts \/ DaemonWaits
  BY <1>14, <1>at DEF ORTypeOK, DaemonStarts, DaemonWaits, procVars
<1>15. CASE DaemonLeaves
  <2>1. rest' \in Intents
    BY <1>15 DEF DaemonLeaves, ORTypeOK, Intents
  <2> QED
    BY <1>15, <2>1, <1>at DEF DaemonLeaves, ORTypeOK, procVars
<1>16. CASE ReapOrphan \/ OrphanRecovered
  <2>1. st' \in States
    BY <1>16 DEF ReapOrphan, OrphanRecovered, ORTypeOK, States
  <2> QED
    BY <1>16, <2>1, <1>at DEF ReapOrphan, OrphanRecovered, ORTypeOK, procVars
<1>17. CASE Prepare
  <2>1. dm' \in Daemons
    BY <1>17 DEF Prepare, ORTypeOK, Daemons
  <2> QED
    BY <1>17, <2>1, PlanTypes DEF Prepare, ORTypeOK, procVars
<1>18. CASE DaemonLooks
  <2>1. dm' \in Daemons
    BY <1>18 DEF DaemonLooks, ORTypeOK, Daemons
  <2> QED
    BY <1>18, <2>1, <1>look, LookTypes DEF DaemonLooks, ORTypeOK
<1>19. CASE DaemonUpdates
  <2>1. dm' \in Daemons
    BY <1>19 DEF DaemonUpdates, ORTypeOK, Daemons
  <2>2. /\ st' \in States /\ rest' \in Intents
        /\ late' \in BOOLEAN /\ stale' \in BOOLEAN
    BY <1>19, <1>look, UpdateTypes DEF DaemonUpdates, ORTypeOK
  <2> QED
    BY <1>19, <2>1, <2>2, <1>none DEF DaemonUpdates, ORTypeOK, procVars
<1>20. CASE Claim
  <2>1. dm' \in Daemons
    BY <1>20 DEF Claim, ORTypeOK, Daemons
  <2>2. rest' \in Intents
    BY <1>20 DEF Claim, ORTypeOK, Intents
  <2> QED
    BY <1>20, <2>1, <2>2 DEF Claim, ORTypeOK, procVars
<1>21. CASE Spawn \/ Respawn
  <2>1. dm' \in Daemons
    <3>1. ASSUME NEW s \in Sups PROVE [dm EXCEPT !.at = "launched", !.kid = s] \in Daemons
      <4>1. dm \in Daemons /\ s \in 0..MaxSups
        BY DEF ORTypeOK, Sups
      <4> QED
        BY <4>1 DEF Daemons
    <3>2. \E s \in Sups : dm' = [dm EXCEPT !.at = "launched", !.kid = s]
      <4>1. CASE Spawn
        BY <4>1 DEF Spawn
      <4>2. CASE Respawn
        BY <4>2 DEF Respawn
      <4> QED
        BY <1>21, <4>1, <4>2
    <3> QED
      BY <3>1, <3>2
  <2> QED
    BY <1>21, <2>1, <1>none DEF Spawn, Respawn, ORTypeOK
<1>22. CASE SpawnFails
  <2>1. dm' \in Daemons /\ events' \in 0..MaxEvents
    BY <1>22 DEF SpawnFails, Event, ORTypeOK, Daemons
  <2> QED
    BY <1>22, <2>1, FailedTypes DEF SpawnFails, ORTypeOK, procVars
<1>23. CASE PublishOwner
  <2>1. st' \in States
    BY <1>23 DEF PublishOwner, Kid, ORTypeOK, States, Daemons
  <2>2. rest' \in Intents
    BY <1>23 DEF PublishOwner, ORTypeOK, Intents
  <2> QED
    BY <1>23, <2>1, <2>2, <1>at DEF PublishOwner, ORTypeOK, procVars
<1>24. CASE ReapReplacement
  BY <1>24, <1>at, ReapTypes DEF ORTypeOK, ReapReplacement
<1>25. CASE PublishOwnerFails
  <2>1. events' \in 0..MaxEvents
    BY <1>25 DEF PublishOwnerFails, Event, ORTypeOK
  <2> QED
    BY <1>25, <2>1, <1>at, ReapTypes, FailedTypes DEF PublishOwnerFails, ORTypeOK
<1>26. CASE PublishPane
  <2>1. st' \in States
    BY <1>26 DEF PublishPane, ORTypeOK, States
  <2>2. rest' \in Intents
    BY <1>26 DEF PublishPane, ORTypeOK, Intents
  <2> QED
    BY <1>26, <2>1, <2>2, <1>at, ReapTypes DEF PublishPane, ORTypeOK, procVars
<1>27. CASE Cancel \/ TimePasses
  <2>1. st' \in States
    BY <1>27 DEF Cancel, TimePasses, ORTypeOK, States
  <2> QED
    BY <1>27, <2>1 DEF Cancel, TimePasses, ORTypeOK, procVars
<1>28. CASE KillSupervisor
  <2>1. events' \in 0..MaxEvents
    BY <1>28 DEF KillSupervisor, Event, ORTypeOK
  <2>2. [exec EXCEPT !.of = 0] \in Executors
    BY DEF ORTypeOK, Executors
  <2> QED
    BY <1>28, <2>1, <2>2, <1>none DEF KillSupervisor, ORTypeOK
<1>29. CASE KillExecutor
  <2>1. events' \in 0..MaxEvents
    BY <1>29 DEF KillExecutor, Event, ORTypeOK
  <2>2. [exec EXCEPT !.at = "crashed"] \in Executors
    BY DEF ORTypeOK, Executors
  <2> QED
    BY <1>29, <2>1, <2>2, <1>none DEF KillExecutor, ORTypeOK
<1>30. CASE KillDaemon
  <2>1. events' \in 0..MaxEvents
    BY <1>30 DEF KillDaemon, Event, ORTypeOK
  <2>2. dm' \in Daemons
    BY <1>30 DEF KillDaemon, ORTypeOK, Daemons
  <2>3. rest' \in Intents
    BY <1>30 DEF KillDaemon, ORTypeOK, Intents
  <2> QED
    BY <1>30, <2>1, <2>2, <2>3, <1>none DEF KillDaemon, ORTypeOK, procVars
<1>31. CASE UNCHANGED orVars
  BY <1>31 DEF ORTypeOK, orVars, procVars
<1> QED
  BY <1>1, <1>2, <1>3, <1>4, <1>5, <1>6, <1>7, <1>8, <1>9, <1>10, <1>11,
     <1>12, <1>13, <1>14, <1>15, <1>16, <1>17, <1>18, <1>19, <1>20, <1>21,
     <1>22, <1>23, <1>24, <1>25, <1>26, <1>27, <1>28, <1>29, <1>30, <1>31
  DEF ORNext, SupervisorStep, ExecutorStep, DaemonStep

-----------------------------------------------------------------------------
(* A detached session is never found lost.                                 *)

LEMMA NoLossLook ==
  ASSUME ORTypeOK, NoLossInProcess, mode = "process", NEW p \in Lookers, Look(p)
  PROVE  \A q \in Lookers : look'[q].what # "lost" /\ (look'[q].what \in {"orphan", "late"} => ~look'[q].missing)
<1>1. ~RunnerMissing
  BY DEF RunnerMissing
<1>2. ASSUME NEW what, NEW missing, Reads(p, what, missing), what # "lost",
             what \in {"orphan", "late"} => ~missing
      PROVE  \A q \in Lookers : look'[q].what # "lost" /\ (look'[q].what \in {"orphan", "late"} => ~look'[q].missing)
  BY <1>2 DEF Reads, ORTypeOK, NoLossInProcess
<1>3. CASE SeesRollover(p)
  BY <1>2, <1>3 DEF SeesRollover
<1>4. CASE SeesNoRunner(p)
  BY <1>1, <1>2, <1>4 DEF SeesNoRunner
<1>5. CASE SeesOrphan(p)
  BY <1>1, <1>2, <1>5 DEF SeesOrphan
<1>6. CASE SeesNothing(p)
  BY <1>6 DEF SeesNothing, NoLook, ORTypeOK, NoLossInProcess
<1> QED
  BY <1>3, <1>4, <1>5, <1>6 DEF Look

LEMMA NoLossUpdate ==
  ASSUME ORTypeOK, NoLossInProcess, mode = "process", NEW p \in Lookers, Update(p)
  PROVE  st'.reason \notin {"lost", "lost orphan"}
<1>1. st \in States /\ st.reason \notin {"lost", "lost orphan"}
  BY DEF ORTypeOK, NoLossInProcess
<1>2. look[p].what # "lost" /\ (look[p].what \in {"orphan", "late"} => ~look[p].missing)
  BY DEF NoLossInProcess
<1>3. CASE PlanRestoration(p)
  BY <1>1, <1>3 DEF PlanRestoration, Relaunching, States
<1>4. CASE MarkLost(p)
  BY <1>2, <1>4 DEF MarkLost
<1>5. CASE MarkOrphan(p)
  BY <1>1, <1>2, <1>5 DEF MarkOrphan, States
<1>6. CASE RepairRollover(p)
  BY <1>1, <1>6 DEF RepairRollover, States
<1> QED
  BY <1>3, <1>4, <1>5, <1>6 DEF Update

(* The steps that write the reason of the exit, and those that read.       *)
LEMMA NoLossStep == ORTypeOK /\ NoLossInProcess /\ [ORNext]_orVars => NoLossInProcess'
<1> SUFFICES ASSUME ORTypeOK, NoLossInProcess, [ORNext]_orVars, mode' = "process"
             PROVE  /\ st'.reason \notin {"lost", "lost orphan"}
                    /\ \A q \in Lookers : /\ look'[q].what # "lost"
                                          /\ look'[q].what \in {"orphan", "late"} => ~look'[q].missing
  BY DEF NoLossInProcess
<1> DEFINE Clean == st'.reason \notin {"lost", "lost orphan"}
           Unread == \A q \in Lookers : /\ look'[q].what # "lost"
                                        /\ look'[q].what \in {"orphan", "late"} => ~look'[q].missing
<1>mode. mode = "process"
  BY DEF ORNext, SupervisorStep, ExecutorStep, DaemonStep, orVars, procVars,
         Register, EnsureDaemon, Launch, Leave, AfterCrash,
         ReapBeforeRun, Consume, Enter, StartWorker, WorkerEnds, Rollover, ExecutorExits,
         CommandLooks, CommandUpdates, DaemonStarts, DaemonLeaves, DaemonWaits, ReapOrphan,
         OrphanRecovered, Prepare, DaemonLooks, DaemonUpdates, Claim, Spawn, Respawn,
         SpawnFails, PublishOwner, ReapReplacement, PublishOwnerFails, PublishPane,
         Cancel, TimePasses, KillSupervisor, KillExecutor, KillDaemon
<1>0. /\ st \in States /\ st.reason \notin {"lost", "lost orphan"}
      /\ look \in [Lookers -> Readings]
      /\ "daemon" \in Lookers /\ "command" \in Lookers
      /\ \A q \in Lookers : look[q].what # "lost" /\ (look[q].what \in {"orphan", "late"} => ~look[q].missing)
  BY <1>mode DEF ORTypeOK, NoLossInProcess, Lookers
<1>reason. ASSUME look' = look, st'.reason \notin {"lost", "lost orphan"}
           PROVE  Clean /\ Unread
  BY <1>0, <1>reason
<1>forget. ASSUME NEW p \in Lookers, look' = [look EXCEPT ![p] = NoLook] PROVE Unread
  BY <1>0, <1>forget DEF NoLook
<1>1. ASSUME NEW s \in Sups, SupervisorStep(s) PROVE Clean /\ Unread
  <2>1. st'.reason = st.reason
    BY <1>0, <1>1 DEF SupervisorStep, Register, EnsureDaemon, Launch, Leave, AfterCrash, States
  <2>2. look' = look
    BY <1>1 DEF SupervisorStep, Register, EnsureDaemon, Launch, Leave, AfterCrash, procVars
  <2> QED
    BY <1>0, <2>1, <2>2
<1>2. CASE ExecutorStep
  <2>1. Clean
    BY <1>0, <1>2 DEF ExecutorStep, ReapBeforeRun, Consume, Enter, StartWorker, WorkerEnds,
                      Rollover, ExecutorExits, States
  <2>2. look' = look
    BY <1>2 DEF ExecutorStep, ReapBeforeRun, Consume, Enter, StartWorker, WorkerEnds,
                Rollover, ExecutorExits
  <2> QED
    BY <1>0, <2>1, <2>2
<1>3. CASE CommandLooks
  BY <1>0, <1>3, <1>mode, NoLossLook DEF CommandLooks
<1>4. CASE CommandUpdates
  BY <1>0, <1>4, <1>mode, <1>forget, NoLossUpdate DEF CommandUpdates
<1>5. CASE DaemonLooks
  BY <1>0, <1>5, <1>mode, NoLossLook DEF DaemonLooks
<1>6. CASE DaemonUpdates
  BY <1>0, <1>6, <1>mode, <1>forget, NoLossUpdate DEF DaemonUpdates
<1>7. CASE ReapOrphan \/ OrphanRecovered
  BY <1>0, <1>7 DEF ReapOrphan, OrphanRecovered, States, procVars
<1>8. CASE DaemonStarts \/ DaemonLeaves \/ DaemonWaits \/ Prepare \/ Claim \/ Spawn \/ Respawn
           \/ ReapReplacement
  BY <1>0, <1>8 DEF DaemonStarts, DaemonLeaves, DaemonWaits, Prepare, Claim, Spawn, Respawn,
                    ReapReplacement, procVars
<1>9. CASE SpawnFails \/ PublishOwner \/ PublishOwnerFails \/ PublishPane
  <2>1. st'.reason = st.reason
    BY <1>0, <1>9 DEF SpawnFails, PublishOwner, PublishOwnerFails, PublishPane, Failed, States
  <2>2. look' = look
    BY <1>9 DEF SpawnFails, PublishOwner, PublishOwnerFails, PublishPane
  <2> QED
    BY <1>0, <2>1, <2>2
<1>10. CASE Cancel \/ TimePasses \/ KillSupervisor \/ KillExecutor \/ UNCHANGED orVars
  BY <1>0, <1>10 DEF Cancel, TimePasses, KillSupervisor, KillExecutor, States, orVars
<1>11. CASE KillDaemon
  BY <1>0, <1>11, <1>forget DEF KillDaemon
<1> QED
  BY <1>1, <1>2, <1>3, <1>4, <1>5, <1>6, <1>7, <1>8, <1>9, <1>10, <1>11 DEF ORNext, DaemonStep
-----------------------------------------------------------------------------
(* One supervisor at a time.                                               *)

(* Steps that leave the restoration, and start no supervisor and no claim. *)
LEMMA CalmStep ==
  ASSUME ORTypeOK, OwnerInv, rest' = rest, st'.owner = st.owner,
         \A s \in Sups : Alive(s)' => Alive(s),
         dm' = dm \/ dm'.at \notin {"claimed", "launched"}
  PROVE  OwnerInv'
<1>1. OneSupervisor'
  BY DEF OwnerInv, OneSupervisor
<1>2. PlanInv'
  BY DEF OwnerInv, PlanInv, SomeAlive
<1>3. ClaimInv'
  BY DEF OwnerInv, ClaimInv, SomeAlive, RestorerAlive
<1>4. LaunchInv'
  <2> SUFFICES ASSUME dm'.at = "launched" PROVE LaunchInv'
    BY DEF LaunchInv
  <2>1. dm' = dm /\ Kid' = Kid
    BY DEF Kid
  <2>2. Alive(Kid)' => Alive(Kid)
    BY <2>1 DEF Alive
  <2>3. (MyClaim \/ SettledByKid) => (MyClaim \/ SettledByKid)'
    BY <2>1 DEF MyClaim, SettledByKid
  <2> QED
    BY <2>1, <2>2, <2>3 DEF OwnerInv, LaunchInv
<1> QED
  BY <1>1, <1>2, <1>3, <1>4 DEF OwnerInv

(* Steps after which no supervisor lives and no claim is being served.     *)
LEMMA EmptyStep ==
  ASSUME \A s \in Sups : ~Alive(s)', dm'.at = "claimed" => RestorerAlive'
  PROVE  OwnerInv'
<1>1. Alive(Kid)' => Kid' \in Sups
  BY DEF Alive
<1>2. ~Alive(Kid)' /\ ~SomeAlive'
  BY <1>1 DEF SomeAlive, Alive
<1> QED
  BY <1>2 DEF OwnerInv, OneSupervisor, PlanInv, ClaimInv, LaunchInv

(* A reconciliation that goes unnoticed plans while nobody lives.          *)
LEMMA UpdatePlans ==
  ASSUME ORTypeOK, OwnerInv, NEW p \in Lookers, Update(p), ~stale'
  PROVE  /\ st'.owner = st.owner
         /\ rest' = rest \/ (~SomeAlive /\ ~RestorerAlive)
<1>0. st \in States
  BY DEF ORTypeOK
<1>1. CASE PlanRestoration(p)
  <2>1. st'.owner = st.owner
    BY <1>0, <1>1 DEF PlanRestoration, Relaunching, States
  <2>2. CASE rest.st = "failed"
    BY <2>1, <2>2 DEF OwnerInv, PlanInv, RestorerAlive
  <2>3. CASE rest.st # "failed"
    BY <1>1, <2>1, <2>3 DEF PlanRestoration
  <2> QED
    BY <2>2, <2>3
<1>2. CASE MarkLost(p)
  BY <1>0, <1>2 DEF MarkLost, States
<1>3. CASE MarkOrphan(p)
  BY <1>0, <1>3 DEF MarkOrphan, States
<1>4. CASE RepairRollover(p)
  BY <1>0, <1>4 DEF RepairRollover, States
<1> QED
  BY <1>1, <1>2, <1>3, <1>4 DEF Update

LEMMA UpdateStep ==
  ASSUME ORTypeOK, OwnerInv, NEW p \in Lookers, Update(p), ~stale', sup' = sup,
         dm' = dm \/ dm'.at \notin {"claimed", "launched"}
  PROVE  OwnerInv'
<1>0. \A s \in Sups : Alive(s)' <=> Alive(s)
  BY DEF Alive
<1>1. CASE rest' = rest
  BY <1>0, <1>1, UpdatePlans, CalmStep
<1>2. CASE rest' # rest
  <2>1. ~SomeAlive /\ ~RestorerAlive
    BY <1>2, UpdatePlans
  <2>2. dm.at # "claimed"
    BY <2>1 DEF OwnerInv, ClaimInv
  <2> QED
    BY <1>0, <2>1, <2>2, EmptyStep DEF SomeAlive
<1> QED
  BY <1>1, <1>2

LEMMA RegisterStep ==
  ASSUME ORTypeOK, OwnerInv, mode = "process", NEW s \in Sups, Register(s)
  PROVE  OwnerInv'
<1>0. st \in States /\ rest \in Intents /\ dm \in Daemons
      /\ sup \in [Sups -> {"booting", "up", "gone"}]
  BY DEF ORTypeOK
<1>1. \A t \in Sups : Alive(t)' <=> Alive(t)
  BY <1>0 DEF Register, Alive
<1>2. Alive(s) /\ SomeAlive
  BY DEF Register, Alive, SomeAlive
<1>3. rest.st \notin {"pending", "failed"} /\ dm.at # "claimed"
  BY <1>2 DEF OwnerInv, PlanInv, ClaimInv
<1>4. dm' = dm \/ dm'.at = "starting"
  BY <1>0 DEF Register, Ensured, Daemons
<1>5. OneSupervisor'
  BY <1>1 DEF OwnerInv, OneSupervisor
<1>6. /\ rest'.st \notin {"pending", "failed"} /\ rest'.mine = rest.mine
      /\ rest' = rest \/ (rest.st = "restoring" /\ rest'.st = "restored" /\ st'.owner = s)
      /\ st'.owner \in {s, st.owner}
  BY <1>0, <1>3 DEF Register, Intents, States
<1>7. LaunchInv'
  <2> SUFFICES ASSUME dm'.at = "launched" PROVE LaunchInv'
    BY DEF LaunchInv
  <2>1. dm' = dm /\ dm.at = "launched" /\ Kid' = Kid
    BY <1>4 DEF Kid
  <2>2. (\A t \in Sups : Alive(t) => t = Kid) /\ s = Kid /\ (MyClaim \/ SettledByKid)
    BY <1>2, <2>1 DEF OwnerInv, LaunchInv
  <2>3. (MyClaim \/ SettledByKid)'
    BY <1>6, <2>1, <2>2 DEF MyClaim, SettledByKid
  <2> QED
    BY <1>1, <2>1, <2>2, <2>3 DEF LaunchInv
<1> QED
  BY <1>3, <1>4, <1>5, <1>6, <1>7 DEF OwnerInv, PlanInv, ClaimInv

LEMMA SpawnStep ==
  ASSUME ORTypeOK, OwnerInv, Spawn
  PROVE  OwnerInv'
<1>0. dm \in Daemons /\ sup \in [Sups -> {"booting", "up", "gone"}]
  BY DEF ORTypeOK
<1>1. PICK s \in Sups : /\ sup' = [sup EXCEPT ![s] = "booting"]
                        /\ dm' = [dm EXCEPT !.at = "launched", !.kid = s]
  BY DEF Spawn
<1>2. ~SomeAlive /\ MyClaim /\ rest' = rest
  BY DEF Spawn, OwnerInv, ClaimInv, RestorerAlive, MyClaim
<1>3. dm'.at = "launched" /\ Kid' = s
  BY <1>0, <1>1 DEF Daemons, Kid
<1>4. \A t \in Sups : Alive(t)' => t = s
  BY <1>0, <1>1, <1>2 DEF SomeAlive, Alive
<1>5. MyClaim' /\ rest'.st = "restoring"
  BY <1>2 DEF MyClaim
<1> QED
  BY <1>3, <1>4, <1>5 DEF OwnerInv, OneSupervisor, PlanInv, ClaimInv, LaunchInv

LEMMA OwnerStep ==
  ASSUME RecoveryInv, [ORNext]_orVars, mode = "process", ~stale, ~stale'
  PROVE  OwnerInv'
<1>0. /\ ORTypeOK /\ OwnerInv /\ NoLossInProcess
      /\ st \in States /\ rest \in Intents /\ dm \in Daemons
      /\ sup \in [Sups -> {"booting", "up", "gone"}]
  BY DEF RecoveryInv, ORTypeOK
<1>same. ASSUME sup' = sup PROVE \A s \in Sups : Alive(s)' => Alive(s)
  BY <1>same DEF Alive
<1>fewer. ASSUME NEW t, sup' = [sup EXCEPT ![t] = "gone"]
          PROVE  \A s \in Sups : Alive(s)' => (Alive(s) /\ s # t)
  BY <1>0, <1>fewer DEF Alive
<1>ens. Ensured = dm \/ Ensured.at = "starting"
  BY <1>0 DEF Ensured, Daemons
<1>at. ASSUME NEW a, NEW b, DaemonAt(a, b) PROVE dm.at = a /\ dm'.at = b
  BY <1>0, <1>at DEF DaemonAt, Daemons
<1>1. ASSUME NEW s \in Sups, Register(s) PROVE OwnerInv'
  BY <1>0, <1>1, RegisterStep
<1>2. ASSUME NEW s \in Sups, EnsureDaemon(s) \/ Launch(s) PROVE OwnerInv'
  <2>1. rest' = rest /\ st' = st /\ sup' = sup /\ (dm' = dm \/ dm' = Ensured)
    BY <1>2 DEF EnsureDaemon, Launch, procVars
  <2> QED
    BY <1>0, <2>1, <1>same, <1>ens, CalmStep
<1>3. ASSUME NEW s \in Sups, Leave(s) \/ AfterCrash(s) PROVE OwnerInv'
  <2>1. rest' = rest /\ st'.owner = st.owner /\ dm' = dm
    BY <1>0, <1>3 DEF Leave, AfterCrash, States
  <2>2. sup' = sup \/ sup' = [sup EXCEPT ![s] = "gone"]
    BY <1>3 DEF Leave, AfterCrash
  <2> QED
    BY <1>0, <2>1, <2>2, <1>same, <1>fewer, CalmStep
<1>4. CASE ExecutorStep
  <2>1. rest' = rest /\ dm' = dm /\ sup' = sup
    BY <1>4 DEF ExecutorStep, ReapBeforeRun, Consume, Enter, StartWorker, WorkerEnds,
                Rollover, ExecutorExits
  <2>2. st'.owner = st.owner
    BY <1>0, <1>4 DEF ExecutorStep, ReapBeforeRun, Consume, Enter, StartWorker, WorkerEnds,
                      Rollover, ExecutorExits, States
  <2> QED
    BY <1>0, <2>1, <2>2, <1>same, CalmStep
<1>5. CASE CommandLooks \/ DaemonLooks
  <2>1. rest' = rest /\ st' = st /\ sup' = sup
    BY <1>5 DEF CommandLooks, DaemonLooks
  <2>2. dm' = dm \/ dm'.at \in {"pass", "update"}
    BY <1>0, <1>5 DEF CommandLooks, DaemonLooks, Daemons
  <2> QED
    BY <1>0, <2>1, <2>2, <1>same, CalmStep
<1>6. CASE CommandUpdates
  <2>1. Update("command") /\ sup' = sup /\ dm' = dm
    BY <1>6 DEF CommandUpdates, procVars
  <2>2. "command" \in Lookers
    BY DEF Lookers
  <2> QED
    BY <1>0, <2>1, <2>2, UpdateStep
<1>7. CASE DaemonUpdates
  <2>1. sup' = sup /\ dm'.at = "claim"
    BY <1>0, <1>7 DEF DaemonUpdates, procVars, Daemons
  <2>2. "daemon" \in Lookers
    BY DEF Lookers
  <2>3. CASE Update("daemon")
    BY <1>0, <2>1, <2>2, <2>3, UpdateStep
  <2>4. CASE UNCHANGED <<st, rest, late, stale>>
    BY <1>0, <2>1, <2>4, <1>same, CalmStep
  <2> QED
    BY <1>7, <2>3, <2>4 DEF DaemonUpdates
<1>8. CASE DaemonStarts \/ DaemonWaits \/ ReapOrphan \/ OrphanRecovered
  <2>1. rest' = rest /\ sup' = sup /\ dm'.at \in {"pass", "reaped", "prepare"}
    BY <1>8, <1>at DEF DaemonStarts, DaemonWaits, ReapOrphan, OrphanRecovered, procVars
  <2>2. st'.owner = st.owner
    BY <1>0, <1>8 DEF DaemonStarts, DaemonWaits, ReapOrphan, OrphanRecovered, States
  <2> QED
    BY <1>0, <2>1, <2>2, <1>same, CalmStep
<1>9. CASE Prepare
  <2>1. st.reason # "lost"
    BY <1>0 DEF NoLossInProcess
  <2>2. rest' = rest /\ st' = st /\ sup' = sup
    BY <1>9, <2>1 DEF Prepare, procVars
  <2>3. dm'.at = "look"
    BY <1>0, <1>9 DEF Prepare, Daemons
  <2> QED
    BY <1>0, <2>2, <2>3, <1>same, CalmStep
<1>10. CASE Claim
  <2>1. ~SomeAlive /\ sup' = sup
    BY <1>0, <1>10 DEF Claim, procVars, OwnerInv, PlanInv
  <2>2. RestorerAlive'
    BY <1>0, <1>10 DEF Claim, RestorerAlive, Intents
  <2> QED
    BY <2>1, <2>2, <1>same, EmptyStep DEF SomeAlive
<1>11. CASE Spawn
  BY <1>0, <1>11, SpawnStep
<1>12. CASE SpawnFails
  <2>1. ~SomeAlive /\ sup' = sup
    BY <1>0, <1>12 DEF SpawnFails, procVars, OwnerInv, ClaimInv
  <2>2. dm'.at = "pass"
    BY <1>0, <1>12 DEF SpawnFails, Daemons
  <2> QED
    BY <2>1, <2>2, <1>same, EmptyStep DEF SomeAlive
<1>13. CASE PublishOwner
  <2>1. sup' = sup /\ dm'.at = "pass" /\ rest'.st = "restored"
    BY <1>0, <1>13, <1>at DEF PublishOwner, SettledByKid, Intents, procVars
  <2>2. OneSupervisor'
    BY <1>0, <1>same, <2>1 DEF OwnerInv, OneSupervisor
  <2> QED
    BY <2>1, <2>2 DEF OwnerInv, PlanInv, ClaimInv, LaunchInv
<1>14. CASE ReapReplacement
  <2>1. rest' = rest /\ st' = st /\ dm'.at = "pass"
    BY <1>14, <1>at DEF ReapReplacement
  <2>2. sup' = [sup EXCEPT ![Kid] = "gone"]
    BY <1>14 DEF ReapReplacement, ReapSup
  <2> QED
    BY <1>0, <2>1, <2>2, <1>fewer, CalmStep
<1>15. CASE PublishOwnerFails
  <2>1. dm.at = "launched" /\ dm'.at = "pass" /\ sup' = [sup EXCEPT ![Kid] = "gone"]
    BY <1>15, <1>at DEF PublishOwnerFails, ReapSup
  <2>2. \A s \in Sups : ~Alive(s)'
    BY <1>0, <2>1, <1>fewer DEF OwnerInv, LaunchInv
  <2> QED
    BY <2>1, <2>2, EmptyStep
<1>16. CASE DaemonLeaves \/ KillDaemon
  <2>1. sup' = sup /\ dm'.at = "none"
    BY <1>0, <1>16 DEF DaemonLeaves, KillDaemon, DaemonAt, Daemons, procVars
  <2>2. rest'.st = rest.st
    BY <1>0, <1>16 DEF DaemonLeaves, KillDaemon, Intents
  <2>3. OneSupervisor' /\ (SomeAlive' => SomeAlive)
    BY <1>0, <2>1, <1>same DEF OwnerInv, OneSupervisor, SomeAlive
  <2> QED
    BY <1>0, <2>1, <2>2, <2>3 DEF OwnerInv, PlanInv, ClaimInv, LaunchInv
<1>17. CASE Cancel \/ TimePasses \/ KillExecutor \/ UNCHANGED orVars
  <2>1. rest' = rest /\ dm' = dm /\ sup' = sup
    BY <1>17 DEF Cancel, TimePasses, KillExecutor, orVars, procVars
  <2>2. st'.owner = st.owner
    BY <1>0, <1>17 DEF Cancel, TimePasses, KillExecutor, orVars, States
  <2> QED
    BY <1>0, <2>1, <2>2, <1>same, CalmStep
<1>18. CASE KillSupervisor
  <2>1. rest' = rest /\ dm' = dm /\ st' = st
    BY <1>18 DEF KillSupervisor
  <2>2. \E s \in Sups : sup' = [sup EXCEPT ![s] = "gone"]
    BY <1>18 DEF KillSupervisor
  <2> QED
    BY <1>0, <2>1, <2>2, <1>fewer, CalmStep
<1>19. ~Respawn /\ ~PublishPane
  BY DEF Respawn, PublishPane
<1> QED
  BY <1>1, <1>2, <1>3, <1>4, <1>5, <1>6, <1>7, <1>8, <1>9, <1>10, <1>11, <1>12, <1>13, <1>14,
     <1>15, <1>16, <1>17, <1>18, <1>19 DEF ORNext, SupervisorStep, DaemonStep

LEMMA RecoveryInit == ORInit => RecoveryInv
<1> SUFFICES ASSUME ORInit PROVE RecoveryInv
  OBVIOUS
<1>1. ORTypeOK
  <2>1. st \in States /\ rest \in Intents
    BY ORBoundsAssumption DEF ORInit, States, NoRest, Intents
  <2>2. exec \in Executors /\ dm \in Daemons
    BY ORBoundsAssumption DEF ORInit, NoExec, Executors, Daemons
  <2>3. look \in [Lookers -> Readings] /\ sup \in [Sups -> {"booting", "up", "gone"}]
    BY ORBoundsAssumption DEF ORInit, NoLook, Readings
  <2>4. mode \in {"process", "tmux"} /\ worker \in {"none", "own", "stray"}
    BY ModesAssumption DEF ORInit
  <2>5. late \in BOOLEAN /\ stale \in BOOLEAN
    BY DEF ORInit
  <2>6. events \in 0..MaxEvents
    BY ORBoundsAssumption DEF ORInit
  <2> QED
    BY <2>1, <2>2, <2>3, <2>4, <2>5, <2>6 DEF ORTypeOK
<1>2. NoLossInProcess
  BY DEF ORInit, NoLossInProcess, NoLook
<1>3. OwnerInv
  BY DEF ORInit, NoRest, OwnerInv, OneSupervisor, PlanInv, ClaimInv, LaunchInv, Alive
<1> QED
  BY <1>1, <1>2, <1>3 DEF RecoveryInv

(* Neither the mode nor the ghost that remembers a second plan goes back.  *)
LEMMA GhostsStay ==
  ASSUME ORTypeOK, [ORNext]_orVars
  PROVE  mode' = mode /\ (stale => stale')
<1> USE DEF procVars
<1>1. ASSUME NEW p, Update(p) PROVE stale => stale'
  BY <1>1 DEF Update, PlanRestoration, MarkLost, MarkOrphan, RepairRollover
<1>2. CASE CommandUpdates \/ DaemonUpdates
  BY <1>1, <1>2 DEF CommandUpdates, DaemonUpdates
<1>3. CASE (\E s \in Sups : SupervisorStep(s)) \/ ExecutorStep \/ UNCHANGED orVars
  <2>1. mode' = mode /\ stale' = stale
    BY <1>3 DEF SupervisorStep, Register, EnsureDaemon, Launch, Leave, AfterCrash, orVars,
                ExecutorStep, ReapBeforeRun, Consume, Enter, StartWorker, WorkerEnds, Rollover,
                ExecutorExits
  <2> QED
    BY <2>1
<1>4. CASE DaemonStep /\ ~DaemonUpdates
  <2>1. mode' = mode /\ stale' = stale
    BY <1>4 DEF DaemonStep, DaemonStarts, DaemonLeaves, DaemonWaits, ReapOrphan,
                OrphanRecovered, Prepare, DaemonLooks, Claim, Spawn, Respawn, SpawnFails,
                PublishOwner, ReapReplacement, PublishOwnerFails, PublishPane
  <2> QED
    BY <2>1
<1>5. CASE CommandLooks \/ Cancel \/ TimePasses \/ KillSupervisor \/ KillExecutor \/ KillDaemon
  BY <1>5 DEF CommandLooks, Cancel, TimePasses, KillSupervisor, KillExecutor, KillDaemon
<1> QED
  BY <1>2, <1>3, <1>4, <1>5 DEF ORNext, DaemonStep

LEMMA RecoveryStep == RecoveryInv /\ [ORNext]_orVars => RecoveryInv'
<1> SUFFICES ASSUME RecoveryInv, [ORNext]_orVars PROVE RecoveryInv'
  OBVIOUS
<1>1. ORTypeOK' /\ NoLossInProcess'
  BY ORTypeStep, NoLossStep DEF RecoveryInv
<1>2. ASSUME mode' = "process", ~stale' PROVE OwnerInv'
  BY <1>2, GhostsStay, OwnerStep DEF RecoveryInv
<1> QED
  BY <1>1, <1>2 DEF RecoveryInv

(* What a step does to an owner that lives.                                *)
LEMMA OwnerKept ==
  ASSUME RecoveryInv, [ORNext]_orVars, mode = "process", OwnerAlive, ~stale, ~Ended,
         dm' # dm \/ st'.owner # st.owner
  PROVE  \/ st'.owner = st.owner /\ sup'[st.owner] # "gone"
         \/ events' # events
<1>0. /\ ORTypeOK /\ OwnerInv /\ Alive(st.owner) /\ st.owner \in Sups
      /\ st \in States /\ dm \in Daemons /\ sup \in [Sups -> {"booting", "up", "gone"}]
      /\ ~st.cancelled
  BY DEF RecoveryInv, ORTypeOK, OwnerAlive, Alive, Ended
<1>still. ASSUME sup' = sup, st'.owner = st.owner
          PROVE  st'.owner = st.owner /\ sup'[st.owner] # "gone"
  BY <1>0, <1>still DEF Alive
<1>ev. ASSUME Event PROVE events' # events
  BY <1>0, <1>ev DEF Event, ORTypeOK
<1>1. ASSUME NEW s \in Sups, Register(s) PROVE st'.owner = st.owner /\ sup'[st.owner] # "gone"
  <2>1. Alive(s) /\ s = st.owner
    BY <1>0, <1>1 DEF Register, Alive, OwnerInv, OneSupervisor
  <2>2. st'.owner = s
    BY <1>0, <1>1 DEF Register, States
  <2> QED
    BY <1>0, <1>1, <2>1, <2>2 DEF Register
<1>2. ASSUME NEW s \in Sups, EnsureDaemon(s) \/ Launch(s) \/ Leave(s) \/ AfterCrash(s)
      PROVE  st'.owner = st.owner /\ sup'[st.owner] # "gone"
  <2>1. EnsureDaemon(s) \/ (dm' = dm /\ st'.owner = st.owner)
    BY <1>0, <1>2 DEF Launch, Leave, AfterCrash, States
  <2>2. EnsureDaemon(s)
    BY <2>1
  <2> QED
    BY <2>2, <1>still DEF EnsureDaemon, procVars
<1>3. CASE ExecutorStep \/ Cancel \/ TimePasses \/ KillExecutor \/ KillSupervisor
           \/ UNCHANGED orVars
  <2>1. dm' = dm /\ st'.owner = st.owner
    BY <1>0, <1>3 DEF ExecutorStep, ReapBeforeRun, Consume, Enter, StartWorker, WorkerEnds,
                      Rollover, ExecutorExits, Cancel, TimePasses, KillExecutor,
                      KillSupervisor, orVars, States
  <2> QED
    BY <2>1
<1>4. CASE CommandLooks \/ SpawnFails \/ PublishOwnerFails \/ KillDaemon
  BY <1>4, <1>ev DEF CommandLooks, SpawnFails, PublishOwnerFails, KillDaemon
<1>5. CASE CommandUpdates \/ DaemonUpdates
  <2>1. ASSUME NEW p, Update(p) PROVE st'.owner = st.owner
    BY <1>0, <2>1 DEF Update, PlanRestoration, Relaunching, MarkLost, MarkOrphan,
                      RepairRollover, States
  <2>2. sup' = sup /\ st'.owner = st.owner
    BY <1>5, <2>1 DEF CommandUpdates, DaemonUpdates, procVars
  <2> QED
    BY <2>2, <1>still
<1>6. CASE DaemonStarts \/ DaemonLeaves \/ DaemonWaits \/ ReapOrphan \/ OrphanRecovered
           \/ Prepare \/ DaemonLooks \/ Claim
  <2>1. sup' = sup /\ st'.owner = st.owner
    BY <1>0, <1>6 DEF DaemonStarts, DaemonLeaves, DaemonWaits, ReapOrphan, OrphanRecovered,
                      Prepare, DaemonLooks, Claim, procVars, States
  <2> QED
    BY <2>1, <1>still
<1>7. CASE Spawn
  <2>1. PICK s \in Sups : s # st.owner /\ sup' = [sup EXCEPT ![s] = "booting"]
    BY <1>7 DEF Spawn, Fresh, Free
  <2> QED
    BY <1>0, <1>7, <2>1 DEF Spawn, Alive
<1>8. CASE PublishOwner \/ ReapReplacement
  <2>1. dm.at = "launched"
    BY <1>8 DEF PublishOwner, ReapReplacement, DaemonAt
  <2>2. st.owner = Kid /\ (MyClaim \/ SettledByKid)
    BY <1>0, <2>1 DEF OwnerInv, LaunchInv
  <2>3. PublishOwner
    BY <1>0, <1>8, <2>2 DEF ReapReplacement
  <2>4. sup' = sup /\ st'.owner = Kid
    BY <1>0, <2>2, <2>3 DEF PublishOwner, procVars, States
  <2> QED
    BY <2>2, <2>4, <1>still
<1>9. ~Respawn /\ ~PublishPane
  BY DEF Respawn, PublishPane
<1> QED
  BY <1>1, <1>2, <1>3, <1>4, <1>5, <1>6, <1>7, <1>8, <1>9 DEF ORNext, SupervisorStep, DaemonStep

(* The types of the model, for any number of processes, rollovers and      *)
(* events.                                                                 *)
THEOREM RecoveryTyped == ORSpec => []ORTypeOK
<1>1. RecoveryInv => ORTypeOK
  BY DEF RecoveryInv
<1> QED
  BY <1>1, RecoveryInit, RecoveryStep, PTL DEF ORSpec

(* A detached session never has two live supervisors, unless one more      *)
(* restoration was planned beside a live one.                              *)
THEOREM OneOwnerAtATime ==
  ORSpec => [](mode = "process" /\ ~stale => OneSupervisor)
<1>1. RecoveryInv => (mode = "process" /\ ~stale => OneSupervisor)
  BY DEF RecoveryInv, OwnerInv
<1> QED
  BY <1>1, RecoveryInit, RecoveryStep, PTL DEF ORSpec

(* No step of the daemon and no registration displaces or reaps a live     *)
(* owner of a detached session, with the exceptions that LiveOwnerStays    *)
(* names (autonomous-owner-recovery.ts 971-1039).                          *)
THEOREM OwnersAreKept == ORSpec => LiveOwnerStays
<1> DEFINE Kept == (/\ mode = "process" /\ OwnerAlive /\ ~stale /\ ~Ended
                    /\ (dm' # dm \/ st'.owner # st.owner))
                   => \/ st'.owner = st.owner /\ sup'[st.owner] # "gone"
                      \/ events' # events
<1>1. RecoveryInv /\ [ORNext]_orVars => [Kept]_orVars
  BY OwnerKept
<1>2. ORSpec => [][Kept]_orVars
  BY <1>1, RecoveryInit, RecoveryStep, PTL DEF ORSpec
<1> QED
  BY <1>2 DEF LiveOwnerStays
=============================================================================
