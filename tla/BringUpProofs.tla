---------------------------- MODULE BringUpProofs ----------------------------
(***************************************************************************)
(* What holds of `up` and its rollback for any project, any way of asking, *)
(* and whatever becomes of containers meanwhile.                           *)
(***************************************************************************)
EXTENDS BringUp, TLAPS

(* The passes over sequences.                                              *)

LEMMA TailShrinks ==
  ASSUME NEW S, NEW q \in Seq(S), q # <<>>
  PROVE  /\ Head(q) \in S /\ Tail(q) \in Seq(S)
         /\ ToSet(q) = {Head(q)} \cup ToSet(Tail(q))
<1>1. Len(q) \in Nat \ {0} /\ DOMAIN q = 1..Len(q) /\ Head(q) = q[1]
  OBVIOUS
<1>2. /\ Tail(q) \in Seq(S) /\ DOMAIN Tail(q) = 1..(Len(q) - 1)
      /\ \A i \in 1..(Len(q) - 1) : Tail(q)[i] = q[i + 1]
  BY <1>1
<1>3. ToSet(q) \subseteq {Head(q)} \cup ToSet(Tail(q))
  <2> SUFFICES ASSUME NEW i \in 1..Len(q) PROVE q[i] \in {Head(q)} \cup ToSet(Tail(q))
    BY <1>1 DEF ToSet
  <2>1. CASE i = 1
    BY <2>1, <1>1
  <2>2. CASE i # 1
    <3>1. i - 1 \in DOMAIN Tail(q) /\ Tail(q)[i - 1] = q[i]
      BY <2>2, <1>1, <1>2
    <3> QED
      BY <3>1 DEF ToSet
  <2> QED
    BY <2>1, <2>2
<1>4. ToSet(Tail(q)) \subseteq ToSet(q) /\ Head(q) \in ToSet(q)
  BY <1>1, <1>2 DEF ToSet
<1>5. Head(q) \in S
  BY <1>1
<1> QED
  BY <1>2, <1>3, <1>4, <1>5

LEMMA ReverseKeeps ==
  ASSUME NEW S, NEW q \in Seq(S)
  PROVE  Reverse(q) \in Seq(S) /\ ToSet(Reverse(q)) = ToSet(q)
<1>1. Len(q) \in Nat /\ DOMAIN q = 1..Len(q)
  OBVIOUS
<1>2. \A i \in 1..Len(q) : (Len(q) - i) + 1 \in 1..Len(q)
  BY <1>1
<1>3. /\ Reverse(q) \in Seq(S) /\ DOMAIN Reverse(q) = 1..Len(q)
      /\ \A i \in 1..Len(q) : Reverse(q)[i] = q[(Len(q) - i) + 1]
  BY <1>1, <1>2 DEF Reverse
<1>4. \A i \in 1..Len(q) : q[i] = Reverse(q)[(Len(q) - i) + 1]
  BY <1>1, <1>2, <1>3
<1>5. ToSet(q) \subseteq ToSet(Reverse(q))
  BY <1>1, <1>2, <1>3, <1>4 DEF ToSet
<1>6. ToSet(Reverse(q)) \subseteq ToSet(q)
  BY <1>1, <1>2, <1>3 DEF ToSet
<1> QED
  BY <1>3, <1>5, <1>6

LEMMA ToSetWithin ==
  ASSUME NEW S, NEW q \in Seq(S)
  PROVE  ToSet(q) \subseteq S
BY DEF ToSet

LEMMA ToSetOfNone == ToSet(<<>>) = {}
BY DEF ToSet

LEMMA OrderIsGood ==
  /\ Order \in Seq(Services) /\ NetOrder \in Seq(Networks)
  /\ Taken \subseteq Services /\ ToSet(Order) = Taken /\ ToSet(NetOrder) = Networks
  /\ Order \in Seq(Taken) /\ Reverse(Order) \in Seq(Taken) /\ ToSet(Reverse(Order)) = Taken
<1>1. Order \in Seq(Services)
  BY OrderAssumption
<1>2. NetOrder \in Seq(Networks)
  BY BringUpAssumption
<1>3. Order \in Seq(Taken)
  BY <1>1 DEF Taken, ToSet
<1> QED
  BY <1>1, <1>2, <1>3, ReverseKeeps, ToSetWithin DEF Taken, Networks

\* What is still to come of a pass in startup order: each service once, and
\* none that one before it depends on.
Ordered(q) ==
  \A i, j \in DOMAIN q :
    i <= j => q[j] \notin DependsOn[q[i]] /\ (q[i] = q[j] => i = j)

LEMMA OrderedTail ==
  ASSUME NEW S, NEW q \in Seq(S), q # <<>>, Ordered(q)
  PROVE  /\ Ordered(Tail(q)) /\ Head(q) \notin ToSet(Tail(q))
         /\ DependsOn[Head(q)] \cap ToSet(q) = {}
<1>1. Len(q) \in Nat \ {0} /\ DOMAIN q = 1..Len(q) /\ Head(q) = q[1]
  OBVIOUS
<1>2. /\ DOMAIN Tail(q) = 1..(Len(q) - 1)
      /\ \A i \in 1..(Len(q) - 1) : i + 1 \in DOMAIN q /\ Tail(q)[i] = q[i + 1]
  BY <1>1
<1>3. Ordered(Tail(q))
  BY <1>1, <1>2 DEF Ordered
<1>4. Head(q) \notin ToSet(Tail(q))
  <2> SUFFICES ASSUME NEW i \in 1..(Len(q) - 1), q[i + 1] = q[1] PROVE FALSE
    BY <1>1, <1>2 DEF ToSet
  <2> QED
    BY <1>1, <1>2 DEF Ordered
<1>5. DependsOn[Head(q)] \cap ToSet(q) = {}
  BY <1>1 DEF Ordered, ToSet
<1> QED
  BY <1>3, <1>4, <1>5

LEMMA OrderIsOrdered == Ordered(Order)
BY OrderAssumption DEF Ordered

-----------------------------------------------------------------------------
(* Types.                                                                  *)

LEMMA BoxesAre ==
  /\ Nothing \in Boxes /\ ~Nothing.runs /\ Nothing.by = "nobody"
  /\ \A by \in {"before", "up", "other"}, r \in BOOLEAN, f \in BOOLEAN : Box(by, r, f) \in Boxes
  /\ \A b \in Boxes, r \in BOOLEAN :
       b = Nothing \/ ([b EXCEPT !.runs = r] \in Boxes /\ [b EXCEPT !.runs = r].by = b.by)
<1>1. /\ Nothing \in Boxes /\ ~Nothing.runs /\ Nothing.by = "nobody"
      /\ \A by \in {"before", "up", "other"}, r \in BOOLEAN, f \in BOOLEAN : Box(by, r, f) \in Boxes
  BY DEF Boxes, Box, Nothing
<1>2. ASSUME NEW b \in Boxes, NEW r \in BOOLEAN, b # Nothing
      PROVE  [b EXCEPT !.runs = r] \in Boxes /\ [b EXCEPT !.runs = r].by = b.by
  <2>1. b \in [by : {"before", "up", "other"}, runs : BOOLEAN, fits : BOOLEAN]
    BY <1>2 DEF Boxes
  <2>2. [b EXCEPT !.runs = r] \in [by : {"before", "up", "other"}, runs : BOOLEAN, fits : BOOLEAN]
    BY <2>1
  <2> QED
    BY <2>1, <2>2 DEF Boxes
<1> QED
  BY <1>1, <1>2

LEMMA TypeInit == Init => TypeOK
<1> SUFFICES ASSUME Init PROVE TypeOK
  OBVIOUS
<1>1. todo \in Seq(Taken) /\ netsTodo \in Seq(Networks)
  BY OrderIsGood DEF Init
<1>2. nets \subseteq Networks /\ marks \subseteq Services
  BY BringUpAssumption DEF Init
<1> QED
  BY <1>1, <1>2 DEF Init, TypeOK, InLoop, Over

LEMMA TypeStep == TypeOK /\ [Next]_vars => TypeOK'
<1> SUFFICES ASSUME TypeOK, [Next]_vars PROVE TypeOK'
  OBVIOUS
<1>o. /\ Order \in Seq(Taken) /\ NetOrder \in Seq(Networks)
      /\ Reverse(Order) \in Seq(Taken) /\ Taken \subseteq Services
  BY OrderIsGood
<1>t. todo # <<>> => On \in Taken /\ On \in Services /\ Tail(todo) \in Seq(Taken)
  BY <1>o, TailShrinks DEF TypeOK, On
<1>n. netsTodo # <<>> => Head(netsTodo) \in Networks /\ Tail(netsTodo) \in Seq(Networks)
  BY TailShrinks DEF TypeOK
<1>b. /\ Nothing \in Boxes /\ ~Nothing.runs
      /\ \A by \in {"before", "up", "other"}, r \in BOOLEAN, f \in BOOLEAN : Box(by, r, f) \in Boxes
      /\ \A b \in Boxes, r \in BOOLEAN : b = Nothing \/ [b EXCEPT !.runs = r] \in Boxes
  BY BoxesAre
<1>h. \A s \in Services : Healthy[s] \subseteq Services
  BY BringUpAssumption
<1> USE DEF TypeOK, InLoop, Over, worldVars, loopVars, preVars, backVars, seenVars,
            At, Passed, Goes, Visited, Begins, NextOne, Fails, Onwards, Stumbles
<1>1. CASE LeftRunning
  BY <1>1, <1>o, <1>t, <1>n, <1>b, <1>h DEF LeftRunning
<1>2. CASE Counted
  BY <1>2, <1>o, <1>t, <1>n, <1>b, <1>h DEF Counted
<1>3. CASE AsksOwner
  BY <1>3, <1>o, <1>t, <1>n, <1>b, <1>h DEF AsksOwner
<1>4. CASE TurnsToNets
  BY <1>4, <1>o, <1>t, <1>n, <1>b, <1>h DEF TurnsToNets
<1>5. CASE MakesNet
  BY <1>5, <1>o, <1>t, <1>n, <1>b, <1>h DEF MakesNet
<1>6. CASE NetRefused
  BY <1>6, <1>o, <1>t, <1>n, <1>b, <1>h DEF NetRefused
<1>7. CASE EntersLoop
  BY <1>7, <1>o, <1>t, <1>n, <1>b, <1>h DEF EntersLoop
<1>8. CASE Turn
  BY <1>8, <1>o, <1>t, <1>n, <1>b, <1>h DEF Turn
<1>9. CASE FoundHealthy
  BY <1>9, <1>o, <1>t, <1>n, <1>b, <1>h DEF FoundHealthy
<1>10. CASE NotHealthy
  BY <1>10, <1>o, <1>t, <1>n, <1>b, <1>h DEF NotHealthy
<1>11. CASE AllHealthy
  BY <1>11, <1>o, <1>t, <1>n, <1>b, <1>h DEF AllHealthy
<1>12. CASE BuildsImage
  BY <1>12, <1>o, <1>t, <1>n, <1>b, <1>h DEF BuildsImage
<1>13. CASE BuildFails
  BY <1>13, <1>o, <1>t, <1>n, <1>b, <1>h DEF BuildFails
<1>14. CASE Compares
  BY <1>14, <1>o, <1>t, <1>n, <1>b, <1>h DEF Compares
<1>15. CASE Prepares
  BY <1>15, <1>o, <1>t, <1>n, <1>b, <1>h DEF Prepares
<1>16. CASE PrepareFails
  BY <1>16, <1>o, <1>t, <1>n, <1>b, <1>h DEF PrepareFails
<1>17. CASE LooksBefore
  BY <1>17, <1>o, <1>t, <1>n, <1>b, <1>h DEF LooksBefore
<1>18. CASE Replaces
  BY <1>18, <1>o, <1>t, <1>n, <1>b, <1>h DEF Replaces
<1>19. CASE RunsWell
  BY <1>19, <1>o, <1>t, <1>n, <1>b, <1>h DEF RunsWell
<1>20. CASE RunFails
  <2>1. PICK b \in {Nothing, Box("up", FALSE, TRUE), Box("up", TRUE, TRUE)} :
          box' = [box EXCEPT ![On] = b]
    BY <1>20 DEF RunFails
  <2>2. box' \in [Services -> Boxes]
    BY <2>1, <1>b
  <2> QED
    BY <1>20, <1>o, <1>t, <2>2 DEF RunFails
<1>21. CASE NameTaken
  BY <1>21, <1>o, <1>t, <1>n, <1>b, <1>h DEF NameTaken
<1>22. CASE NameTakenUnread
  BY <1>22, <1>o, <1>t, <1>n, <1>b, <1>h DEF NameTakenUnread
<1>23. CASE AcceptsTaken
  BY <1>23, <1>o, <1>t, <1>n, <1>b, <1>h DEF AcceptsTaken
<1>24. CASE AfterFailedRun
  BY <1>24, <1>o, <1>t, <1>n, <1>b, <1>h DEF AfterFailedRun
<1>25. CASE BroughtUp
  BY <1>25, <1>o, <1>t, <1>n, <1>b, <1>h DEF BroughtUp
<1>26. CASE Clears
  BY <1>26, <1>o, <1>t, <1>n, <1>b, <1>h DEF Clears
<1>27. CASE Keeps
  BY <1>27, <1>o, <1>t, <1>n, <1>b, <1>h DEF Keeps
<1>28. CASE TurnsToTear
  BY <1>28, <1>o, <1>t, <1>n, <1>b, <1>h DEF TurnsToTear
<1>29. CASE Tears
  <2>1. On \in Services
    BY <1>29, <1>t DEF Tears
  <2>2. box' \in [Services -> Boxes]
    <3>1. [box EXCEPT ![On] = Nothing] \in [Services -> Boxes]
      BY <1>b
    <3>2. box[On] # Nothing => [box EXCEPT ![On].runs = FALSE] \in [Services -> Boxes]
      BY <2>1, <1>b
    <3> QED
      BY <1>29, <3>1, <3>2 DEF Tears
  <2> QED
    BY <1>29, <1>t, <2>2 DEF Tears
<1>30. CASE TurnsToUnmakeNets
  BY <1>30, <1>o, <1>t, <1>n, <1>b, <1>h DEF TurnsToUnmakeNets
<1>31. CASE UnmakesNet
  BY <1>31, <1>o, <1>t, <1>n, <1>b, <1>h DEF UnmakesNet, DeleteNetwork
<1>32. CASE TurnsToSurvivors
  BY <1>32, <1>o, <1>t, <1>n, <1>b, <1>h DEF TurnsToSurvivors
<1>33. CASE FindsSurvivors
  BY <1>33, <1>o, <1>t, <1>n, <1>b, <1>h DEF FindsSurvivors
<1>34. CASE CtrlC
  BY <1>34, <1>o, <1>t, <1>n, <1>b, <1>h DEF CtrlC
<1>100. CASE World
  <2>1. PICK s \in Taken : Exits(s) \/ Revives(s) \/ Intrudes(s) \/ Removed(s)
    BY <1>100 DEF World
  <2>2. \E b \in Boxes : Becomes(s, b)
    BY <2>1, <1>b, <1>o DEF Exits, Revives, Intrudes, Removed
  <2> QED
    BY <2>2, <1>o DEF Becomes
<1>101. CASE UNCHANGED vars
  BY <1>101 DEF vars
<1> QED
  BY <1>1, <1>2, <1>3, <1>4, <1>5, <1>6, <1>7, <1>8, <1>9, <1>10, <1>11, <1>12, <1>13, <1>14, <1>15, <1>16, <1>17, <1>18, <1>19, <1>20, <1>21, <1>22, <1>23, <1>24, <1>25, <1>26, <1>27, <1>28, <1>29, <1>30, <1>31, <1>32, <1>33, <1>34, <1>100, <1>101, Zenon DEF Next, Up

THEOREM BringUpTypeCorrect == Spec => []TypeOK
BY TypeInit, TypeStep, PTL DEF Spec

-----------------------------------------------------------------------------
(* Each service is visited once, and what is known of it is known then.    *)

InService == {"await", "build", "compare", "prepare", "before", "delete", "run",
              "taken", "failedRun"}
Touched == started \cup refused \cup stays

VisitInv ==
  /\ InLoop => Ordered(todo)
  /\ pc \in {"left", "owner", "nets", "refused"} => Touched = {}
  /\ pc \in {"head", "await", "build", "compare", "prepare", "before", "delete"} =>
       ToSet(todo) \cap Touched = {}
  /\ pc \in {"run", "taken", "failedRun"} => ToSet(Tail(todo)) \cap Touched = {} /\ On \notin stays
  /\ pc \in {"run", "failedRun"} => On \in made /\ On \notin refused
  /\ pc = "taken" => On \notin started /\ On \notin OneShot
  /\ ~RollingBack /\ pc # "failed" => kept = {}
  /\ pc \notin {"tear", "unmakeNets", "survive", "failed"} => torn = {}
  /\ stays \subseteq made /\ kept \subseteq made
  /\ refused \cap started = {}
  /\ torn \subseteq started \ (kept \cup stays)

LEMMA VisitInit == Init => VisitInv
BY DEF Init, VisitInv, InLoop, RollingBack, Touched

LEMMA VisitStep == TypeOK /\ VisitInv /\ [Next]_vars => VisitInv'
<1> SUFFICES ASSUME TypeOK, VisitInv, [Next]_vars PROVE VisitInv'
  OBVIOUS
<1>o. ToSet(Order) = Taken /\ Ordered(Order)
  BY OrderIsGood, OrderIsOrdered
<1>t. pc \in InService \/ At("head") =>
        /\ ToSet(todo) = {On} \cup ToSet(Tail(todo))
        /\ InLoop => Ordered(Tail(todo)) /\ On \notin ToSet(Tail(todo))
  BY TailShrinks, OrderedTail DEF TypeOK, VisitInv, On, At, InService
<1>p. pc \in InService => todo # <<>> /\ InLoop
  BY DEF TypeOK, InService, InLoop
<1> USE DEF VisitInv, Touched, InLoop, InService, RollingBack, Over, worldVars, loopVars, preVars, backVars,
            seenVars, On, At, Passed, Goes, Visited, Begins, NextOne, Fails, Onwards, Stumbles, TypeOK
<1>1. CASE LeftRunning
  BY <1>1, <1>o, <1>t, <1>p DEF LeftRunning
<1>2. CASE Counted
  BY <1>2, <1>o, <1>t, <1>p DEF Counted
<1>3. CASE AsksOwner
  BY <1>3, <1>o, <1>t, <1>p DEF AsksOwner
<1>4. CASE TurnsToNets
  BY <1>4, <1>o, <1>t, <1>p DEF TurnsToNets
<1>5. CASE MakesNet
  BY <1>5, <1>o, <1>t, <1>p DEF MakesNet
<1>6. CASE NetRefused
  BY <1>6, <1>o, <1>t, <1>p DEF NetRefused
<1>7. CASE EntersLoop
  BY <1>7, <1>o, <1>t, <1>p DEF EntersLoop
<1>8. CASE Turn
  BY <1>8, <1>o, <1>t, <1>p DEF Turn
<1>9. CASE FoundHealthy
  BY <1>9, <1>o, <1>t, <1>p DEF FoundHealthy
<1>10. CASE NotHealthy
  BY <1>10, <1>o, <1>t, <1>p DEF NotHealthy
<1>11. CASE AllHealthy
  BY <1>11, <1>o, <1>t, <1>p DEF AllHealthy
<1>12. CASE BuildsImage
  BY <1>12, <1>o, <1>t, <1>p DEF BuildsImage
<1>13. CASE BuildFails
  BY <1>13, <1>o, <1>t, <1>p DEF BuildFails
<1>14. CASE Compares
  BY <1>14, <1>o, <1>t, <1>p DEF Compares
<1>15. CASE Prepares
  BY <1>15, <1>o, <1>t, <1>p DEF Prepares
<1>16. CASE PrepareFails
  BY <1>16, <1>o, <1>t, <1>p DEF PrepareFails
<1>17. CASE LooksBefore
  BY <1>17, <1>o, <1>t, <1>p DEF LooksBefore
<1>18. CASE Replaces
  BY <1>18, <1>o, <1>t, <1>p DEF Replaces
<1>19. CASE RunsWell
  BY <1>19, <1>o, <1>t, <1>p DEF RunsWell
<1>20. CASE RunFails
  BY <1>20, <1>o, <1>t, <1>p DEF RunFails
<1>21. CASE NameTaken
  BY <1>21, <1>o, <1>t, <1>p DEF NameTaken
<1>22. CASE NameTakenUnread
  BY <1>22, <1>o, <1>t, <1>p DEF NameTakenUnread
<1>23. CASE AcceptsTaken
  BY <1>23, <1>o, <1>t, <1>p DEF AcceptsTaken
<1>24. CASE AfterFailedRun
  BY <1>24, <1>o, <1>t, <1>p DEF AfterFailedRun
<1>25. CASE BroughtUp
  BY <1>25, <1>o, <1>t, <1>p DEF BroughtUp
<1>26. CASE Clears
  BY <1>26, <1>o, <1>t, <1>p DEF Clears
<1>27. CASE Keeps
  BY <1>27, <1>o, <1>t, <1>p DEF Keeps, MayKeep
<1>28. CASE TurnsToTear
  BY <1>28, <1>o, <1>t, <1>p DEF TurnsToTear
<1>29. CASE Tears
  BY <1>29, <1>o, <1>t, <1>p DEF Tears
<1>30. CASE TurnsToUnmakeNets
  BY <1>30, <1>o, <1>t, <1>p DEF TurnsToUnmakeNets
<1>31. CASE UnmakesNet
  BY <1>31, <1>o, <1>t, <1>p DEF UnmakesNet
<1>32. CASE TurnsToSurvivors
  BY <1>32, <1>o, <1>t, <1>p DEF TurnsToSurvivors
<1>33. CASE FindsSurvivors
  BY <1>33, <1>o, <1>t, <1>p DEF FindsSurvivors
<1>34. CASE CtrlC
  BY <1>34, <1>o, <1>t, <1>p DEF CtrlC
<1>35. CASE World
  BY <1>35, <1>o, <1>t, <1>p DEF World, Exits, Revives, Intrudes, Removed, Becomes
<1>36. CASE UNCHANGED vars
  BY <1>36, <1>o, <1>t, <1>p DEF vars
<1> QED
  BY <1>1, <1>2, <1>3, <1>4, <1>5, <1>6, <1>7, <1>8, <1>9, <1>10, <1>11, <1>12, <1>13, <1>14, <1>15, <1>16, <1>17, <1>18, <1>19, <1>20, <1>21, <1>22, <1>23, <1>24, <1>25, <1>26, <1>27, <1>28, <1>29, <1>30, <1>31, <1>32, <1>33, <1>34, <1>35, <1>36, Zenon DEF Next, Up

THEOREM BringUpVisits == Spec => [](TypeOK /\ VisitInv)
<1>1. Init => TypeOK /\ VisitInv
  BY TypeInit, VisitInit
<1>2. TypeOK /\ VisitInv /\ [Next]_vars => TypeOK' /\ VisitInv'
  BY TypeStep, VisitStep
<1> QED
  BY <1>1, <1>2, PTL DEF Spec

\* A container `up` was told is another's is not removed by its rollback
\* (disownLast), whatever this `up` does after.
THEOREM DisownedIsLeftAlone == Spec => []DisownedIsLeft
<1>1. VisitInv => DisownedIsLeft
  BY DEF VisitInv, DisownedIsLeft
<1> QED
  BY <1>1, BringUpVisits, PTL

-----------------------------------------------------------------------------
(* Every container this `up` made is on its list, until the rollback has   *)
(* taken it off.                                                           *)

ListInv ==
  /\ \A s \in Services : box[s].by = "up" => s \in made
  /\ pc = "run" => box[On].by # "up"
  /\ pc = "tear" => started \ (kept \cup stays) \subseteq torn \cup ToSet(todo)
  /\ pc \in {"unmakeNets", "survive", "failed"} => started \ (kept \cup stays) \subseteq torn
  /\ \A s \in torn : box[s].by = "up" => s \in stuck

LEMMA ListInit == Init => ListInv
<1> SUFFICES ASSUME Init PROVE ListInv
  OBVIOUS
<1>1. \A s \in Services : box[s].by # "up"
  BY BringUpAssumption, BoxesAre DEF Init
<1> QED
  BY <1>1 DEF Init, ListInv

LEMMA ListStep == TypeOK /\ VisitInv /\ ListInv /\ [Next]_vars => ListInv'
<1> SUFFICES ASSUME TypeOK, VisitInv, ListInv, [Next]_vars PROVE ListInv'
  OBVIOUS
<1>o. Taken \subseteq Services /\ ToSet(Reverse(Order)) = Taken /\ ToSet(<<>>) = {}
  BY OrderIsGood, ToSetOfNone
<1>t. todo # <<>> => On \in Services /\ ToSet(todo) = {On} \cup ToSet(Tail(todo))
  BY <1>o, TailShrinks DEF TypeOK, On
<1>p. pc \in InService => todo # <<>>
  BY DEF TypeOK, InService
<1>b. Nothing.by = "nobody" /\ Nothing \in Boxes
  BY BoxesAre
<1>v. /\ pc = "delete" => On \notin made
      /\ pc = "run" => On \in made
      /\ pc \notin {"tear", "unmakeNets", "survive", "failed"} => torn = {}
  BY <1>t, <1>p DEF VisitInv, Touched, InService, TypeOK
<1> USE DEF ListInv, TypeOK, InLoop, InService, RollingBack, Over, worldVars, loopVars, preVars, backVars,
            seenVars, On, At, Passed, Goes, Visited, Begins, NextOne, Fails, Onwards, Stumbles
<1>1. CASE LeftRunning
  BY <1>1, <1>o, <1>t, <1>p, <1>b, <1>v DEF LeftRunning
<1>2. CASE Counted
  BY <1>2, <1>o, <1>t, <1>p, <1>b, <1>v DEF Counted
<1>3. CASE AsksOwner
  BY <1>3, <1>o, <1>t, <1>p, <1>b, <1>v DEF AsksOwner
<1>4. CASE TurnsToNets
  BY <1>4, <1>o, <1>t, <1>p, <1>b, <1>v DEF TurnsToNets
<1>5. CASE MakesNet
  BY <1>5, <1>o, <1>t, <1>p, <1>b, <1>v DEF MakesNet
<1>6. CASE NetRefused
  BY <1>6, <1>o, <1>t, <1>p, <1>b, <1>v DEF NetRefused
<1>7. CASE EntersLoop
  BY <1>7, <1>o, <1>t, <1>p, <1>b, <1>v DEF EntersLoop
<1>8. CASE Turn
  BY <1>8, <1>o, <1>t, <1>p, <1>b, <1>v DEF Turn
<1>9. CASE FoundHealthy
  BY <1>9, <1>o, <1>t, <1>p, <1>b, <1>v DEF FoundHealthy
<1>10. CASE NotHealthy
  BY <1>10, <1>o, <1>t, <1>p, <1>b, <1>v DEF NotHealthy
<1>11. CASE AllHealthy
  BY <1>11, <1>o, <1>t, <1>p, <1>b, <1>v DEF AllHealthy
<1>12. CASE BuildsImage
  BY <1>12, <1>o, <1>t, <1>p, <1>b, <1>v DEF BuildsImage
<1>13. CASE BuildFails
  BY <1>13, <1>o, <1>t, <1>p, <1>b, <1>v DEF BuildFails
<1>14. CASE Compares
  BY <1>14, <1>o, <1>t, <1>p, <1>b, <1>v DEF Compares
<1>15. CASE Prepares
  BY <1>15, <1>o, <1>t, <1>p, <1>b, <1>v DEF Prepares
<1>16. CASE PrepareFails
  BY <1>16, <1>o, <1>t, <1>p, <1>b, <1>v DEF PrepareFails
<1>17. CASE LooksBefore
  BY <1>17, <1>o, <1>t, <1>p, <1>b, <1>v DEF LooksBefore
<1>18. CASE Replaces
  BY <1>18, <1>o, <1>t, <1>p, <1>b, <1>v DEF Replaces
<1>19. CASE RunsWell
  BY <1>19, <1>o, <1>t, <1>p, <1>b, <1>v DEF RunsWell
<1>20. CASE RunFails
  BY <1>20, <1>o, <1>t, <1>p, <1>b, <1>v DEF RunFails
<1>21. CASE NameTaken
  BY <1>21, <1>o, <1>t, <1>p, <1>b, <1>v DEF NameTaken
<1>22. CASE NameTakenUnread
  BY <1>22, <1>o, <1>t, <1>p, <1>b, <1>v DEF NameTakenUnread
<1>23. CASE AcceptsTaken
  BY <1>23, <1>o, <1>t, <1>p, <1>b, <1>v DEF AcceptsTaken
<1>24. CASE AfterFailedRun
  <2>1. PICK look \in Looks(On) :
          made' = IF look = Nothing /\ ~replaced THEN made \ {On} ELSE made
    BY <1>24 DEF AfterFailedRun
  <2>2. look = Nothing => box[On] = Nothing
    BY <1>24 DEF Looks, Unknown, Nothing, Box
  <2>3. \A s \in Services : box'[s].by = "up" => s \in made'
    BY <1>24, <1>b, <2>1, <2>2 DEF AfterFailedRun
  <2> QED
    BY <1>24, <1>v, <2>3 DEF AfterFailedRun
<1>25. CASE BroughtUp
  BY <1>25, <1>o, <1>t, <1>p, <1>b, <1>v DEF BroughtUp
<1>26. CASE Clears
  BY <1>26, <1>o, <1>t, <1>p, <1>b, <1>v DEF Clears
<1>27. CASE Keeps
  BY <1>27, <1>o, <1>t, <1>p, <1>b, <1>v DEF Keeps
<1>28. CASE TurnsToTear
  BY <1>28, <1>o, <1>t, <1>p, <1>b, <1>v DEF TurnsToTear
<1>29. CASE Tears
  <2>1. /\ On \in Services /\ pc' = pc /\ todo' = Tail(todo)
        /\ UNCHANGED <<made, started, kept, stays>>
    BY <1>29, <1>t DEF Tears
  <2>2. CASE On \notin started \ (kept \cup stays)
    BY <1>29, <1>t, <2>1, <2>2 DEF Tears
  <2>3. CASE On \in started \ (kept \cup stays)
    <3>1. torn' = torn \cup {On} /\ stuck \subseteq stuck'
      BY <1>29, <2>3 DEF Tears
    <3>2. /\ \A s \in Services \ {On} : box'[s] = box[s]
          /\ box'[On].by = "up" => box[On].by = "up" /\ On \in stuck'
      BY <1>29, <1>b, <2>1, <2>3, BoxesAre DEF Tears
    <3> QED
      BY <1>29, <1>t, <2>1, <3>1, <3>2, ZenonT(60) DEF Tears
  <2> QED
    BY <2>2, <2>3
<1>30. CASE TurnsToUnmakeNets
  BY <1>30, <1>o, <1>t, <1>p, <1>b, <1>v DEF TurnsToUnmakeNets
<1>31. CASE UnmakesNet
  BY <1>31, <1>o, <1>t, <1>p, <1>b, <1>v DEF UnmakesNet
<1>32. CASE TurnsToSurvivors
  BY <1>32, <1>o, <1>t, <1>p, <1>b, <1>v DEF TurnsToSurvivors
<1>33. CASE FindsSurvivors
  BY <1>33, <1>o, <1>t, <1>p, <1>b, <1>v DEF FindsSurvivors
<1>34. CASE CtrlC
  BY <1>34, <1>o, <1>t, <1>p, <1>b, <1>v DEF CtrlC
<1>35. CASE World
  <2>1. PICK s \in Taken : Exits(s) \/ Revives(s) \/ Intrudes(s) \/ Removed(s)
    BY <1>35 DEF World
  <2>2. PICK b \in Boxes : Becomes(s, b) /\ (b.by = box[s].by \/ b.by # "up")
    BY <2>1, <1>o, BoxesAre DEF Exits, Revives, Intrudes, Removed, Box
  <2> QED
    BY <2>2, <1>o DEF Becomes
<1>36. CASE UNCHANGED vars
  BY <1>36, <1>o, <1>t, <1>p, <1>b, <1>v DEF vars
<1> QED
  BY <1>1, <1>2, <1>3, <1>4, <1>5, <1>6, <1>7, <1>8, <1>9, <1>10, <1>11, <1>12, <1>13, <1>14, <1>15, <1>16, <1>17, <1>18, <1>19, <1>20, <1>21, <1>22, <1>23, <1>24, <1>25, <1>26, <1>27, <1>28, <1>29, <1>30, <1>31, <1>32, <1>33, <1>34, <1>35, <1>36, Zenon DEF Next, Up

-----------------------------------------------------------------------------
(* Networks: all are there when the first service is started, and what the *)
(* rollback takes is what this `up` made and nothing it keeps is on.       *)

NetInv ==
  /\ madeNets \subseteq Networks
  /\ pc = "nets" => Networks \ ToSet(netsTodo) \subseteq nets
  /\ InLoop \/ pc \in {"clear", "up", "keep", "tear"} => nets = Networks
  /\ pc \notin {"unmakeNets", "survive", "failed"} => nets \subseteq netsBefore \cup madeNets
  /\ pc = "unmakeNets" =>
       nets \subseteq netsBefore \cup KeptNets \cup netsStuck \cup (madeNets \cap ToSet(netsTodo))
  /\ pc \in {"survive", "failed"} => nets \subseteq netsBefore \cup KeptNets \cup netsStuck
  /\ netsBefore \subseteq nets \ madeNets
  /\ pc \in {"unmakeNets", "survive", "failed"} => KeptNets \subseteq nets

LEMMA NetInit == Init => NetInv
BY DEF Init, NetInv, InLoop

LEMMA NetStep == TypeOK /\ VisitInv /\ NetInv /\ [Next]_vars => NetInv'
<1> SUFFICES ASSUME TypeOK, VisitInv, NetInv, [Next]_vars PROVE NetInv'
  OBVIOUS
<1>o. ToSet(NetOrder) = Networks /\ ToSet(<<>>) = {}
  BY OrderIsGood, ToSetOfNone
<1>t. netsTodo # <<>> =>
        Head(netsTodo) \in Networks /\ ToSet(netsTodo) = {Head(netsTodo)} \cup ToSet(Tail(netsTodo))
  BY TailShrinks DEF TypeOK
<1>k. /\ kept' = kept /\ stays' = stays => KeptNets' = KeptNets
      /\ kept \cup stays \subseteq Services => KeptNets \subseteq Networks
  BY BringUpAssumption DEF KeptNets
<1> USE DEF NetInv, TypeOK, InLoop, RollingBack, Over, worldVars, loopVars, preVars, backVars,
            seenVars, On, At, Passed, Goes, Visited, Begins, NextOne, Fails, Onwards, Stumbles
<1>1. CASE LeftRunning
  BY <1>1, <1>o, <1>t, <1>k DEF LeftRunning
<1>2. CASE Counted
  BY <1>2, <1>o, <1>t, <1>k DEF Counted
<1>3. CASE AsksOwner
  BY <1>3, <1>o, <1>t, <1>k DEF AsksOwner
<1>4. CASE TurnsToNets
  BY <1>4, <1>o, <1>t, <1>k DEF TurnsToNets
<1>5. CASE MakesNet
  BY <1>5, <1>o, <1>t, <1>k DEF MakesNet
<1>6. CASE NetRefused
  BY <1>6, <1>o, <1>t, <1>k DEF NetRefused
<1>7. CASE EntersLoop
  BY <1>7, <1>o, <1>t, <1>k DEF EntersLoop
<1>8. CASE Turn
  BY <1>8, <1>o, <1>t, <1>k DEF Turn
<1>9. CASE FoundHealthy
  BY <1>9, <1>o, <1>t, <1>k DEF FoundHealthy
<1>10. CASE NotHealthy
  BY <1>10, <1>o, <1>t, <1>k DEF NotHealthy
<1>11. CASE AllHealthy
  BY <1>11, <1>o, <1>t, <1>k DEF AllHealthy
<1>12. CASE BuildsImage
  BY <1>12, <1>o, <1>t, <1>k DEF BuildsImage
<1>13. CASE BuildFails
  BY <1>13, <1>o, <1>t, <1>k DEF BuildFails
<1>14. CASE Compares
  BY <1>14, <1>o, <1>t, <1>k DEF Compares
<1>15. CASE Prepares
  BY <1>15, <1>o, <1>t, <1>k DEF Prepares
<1>16. CASE PrepareFails
  BY <1>16, <1>o, <1>t, <1>k DEF PrepareFails
<1>17. CASE LooksBefore
  BY <1>17, <1>o, <1>t, <1>k DEF LooksBefore
<1>18. CASE Replaces
  BY <1>18, <1>o, <1>t, <1>k DEF Replaces
<1>19. CASE RunsWell
  BY <1>19, <1>o, <1>t, <1>k DEF RunsWell
<1>20. CASE RunFails
  BY <1>20, <1>o, <1>t, <1>k DEF RunFails
<1>21. CASE NameTaken
  BY <1>21, <1>o, <1>t, <1>k DEF NameTaken
<1>22. CASE NameTakenUnread
  BY <1>22, <1>o, <1>t, <1>k DEF NameTakenUnread
<1>23. CASE AcceptsTaken
  BY <1>23, <1>o, <1>t, <1>k DEF AcceptsTaken
<1>24. CASE AfterFailedRun
  BY <1>24, <1>o, <1>t, <1>k DEF AfterFailedRun
<1>25. CASE BroughtUp
  BY <1>25, <1>o, <1>t, <1>k DEF BroughtUp
<1>26. CASE Clears
  BY <1>26, <1>o, <1>t, <1>k DEF Clears
<1>27. CASE Keeps
  BY <1>27, <1>o, <1>t, <1>k DEF Keeps
<1>28. CASE TurnsToTear
  BY <1>28, <1>o, <1>t, <1>k DEF TurnsToTear
<1>29. CASE Tears
  BY <1>29, <1>o, <1>t, <1>k DEF Tears
<1>30. CASE TurnsToUnmakeNets
  BY <1>30, <1>o, <1>t, <1>k DEF TurnsToUnmakeNets
<1>31. CASE UnmakesNet
  BY <1>31, <1>o, <1>t, <1>k DEF UnmakesNet, DeleteNetwork
<1>32. CASE TurnsToSurvivors
  BY <1>32, <1>o, <1>t, <1>k DEF TurnsToSurvivors
<1>33. CASE FindsSurvivors
  BY <1>33, <1>o, <1>t, <1>k DEF FindsSurvivors
<1>34. CASE CtrlC
  BY <1>34, <1>o, <1>t, <1>k DEF CtrlC
<1>35. CASE World
  BY <1>35, <1>o, <1>t, <1>k DEF World, Exits, Revives, Intrudes, Removed, Becomes
<1>36. CASE UNCHANGED vars
  BY <1>36, <1>o, <1>t, <1>k DEF vars
<1> QED
  BY <1>1, <1>2, <1>3, <1>4, <1>5, <1>6, <1>7, <1>8, <1>9, <1>10, <1>11, <1>12, <1>13, <1>14, <1>15, <1>16, <1>17, <1>18, <1>19, <1>20, <1>21, <1>22, <1>23, <1>24, <1>25, <1>26, <1>27, <1>28, <1>29, <1>30, <1>31, <1>32, <1>33, <1>34, <1>35, <1>36, Zenon DEF Next, Up

\* "A failed up leaves no residue behind": after the rollback, a container this
\* `up` made is one it keeps or could not remove; of the networks it made only
\* theirs are left, and those the runtime would not remove, and of the networks
\* from before all.
THEOREM RollbackIsClean == Spec => []RollbackLeavesNothing
<1>1. Init => TypeOK /\ VisitInv /\ ListInv /\ NetInv
  BY TypeInit, VisitInit, ListInit, NetInit
<1>2. TypeOK /\ VisitInv /\ ListInv /\ NetInv /\ [Next]_vars =>
        TypeOK' /\ VisitInv' /\ ListInv' /\ NetInv'
  BY TypeStep, VisitStep, ListStep, NetStep
<1>3. TypeOK /\ VisitInv /\ ListInv /\ NetInv => RollbackLeavesNothing
  BY DEF TypeOK, VisitInv, ListInv, NetInv, RollbackLeavesNothing
<1> QED
  BY <1>1, <1>2, <1>3, PTL DEF Spec

-----------------------------------------------------------------------------
(* What a service this `up` created depends on is behind it in the order,  *)
(* so a dependency the rollback takes is one the check on dependencies saw.*)

DepInv ==
  /\ InLoop => \A s \in made : DependsOn[s] \cap ToSet(todo) = {}
  /\ InLoop => started \ made \subseteq OneShot
  /\ \A s \in made : DependsOn[s] \cap (started \ made) \subseteq OneShot
  /\ \A s \in kept : \A d \in DependsOn[s] : d \notin made \/ d \in kept \/ d \in OneShot

LEMMA DepInit == Init => DepInv
BY DEF Init, DepInv, InLoop

LEMMA DepStep == TypeOK /\ VisitInv /\ DepInv /\ [Next]_vars => DepInv'
<1> SUFFICES ASSUME TypeOK, VisitInv, DepInv, [Next]_vars PROVE DepInv'
  OBVIOUS
<1>t. pc \in InService \/ At("head") =>
        /\ ToSet(todo) = {On} \cup ToSet(Tail(todo))
        /\ DependsOn[On] \cap ToSet(todo) = {}
  BY TailShrinks, OrderedTail DEF TypeOK, VisitInv, On, At, InService, InLoop
<1>p. pc \in InService => todo # <<>> /\ InLoop
  BY DEF TypeOK, InService, InLoop
<1>v. /\ ~RollingBack /\ pc # "failed" => kept = {}
      /\ pc \in {"left", "owner", "nets", "refused"} => started = {} /\ made = {}
      /\ kept \subseteq made
      /\ pc \in {"run", "failedRun"} => On \in made
  BY DEF VisitInv, Touched, TypeOK
<1> USE DEF DepInv, TypeOK, InLoop, InService, RollingBack, Over, worldVars, loopVars, preVars, backVars,
            seenVars, On, At, Passed, Goes, Visited, Begins, NextOne, Fails, Onwards, Stumbles
<1>1. CASE LeftRunning
  BY <1>1, <1>t, <1>p, <1>v DEF LeftRunning
<1>2. CASE Counted
  BY <1>2, <1>t, <1>p, <1>v DEF Counted
<1>3. CASE AsksOwner
  BY <1>3, <1>t, <1>p, <1>v DEF AsksOwner
<1>4. CASE TurnsToNets
  BY <1>4, <1>t, <1>p, <1>v DEF TurnsToNets
<1>5. CASE MakesNet
  BY <1>5, <1>t, <1>p, <1>v DEF MakesNet
<1>6. CASE NetRefused
  BY <1>6, <1>t, <1>p, <1>v DEF NetRefused
<1>7. CASE EntersLoop
  BY <1>7, <1>t, <1>p, <1>v DEF EntersLoop
<1>8. CASE Turn
  BY <1>8, <1>t, <1>p, <1>v DEF Turn
<1>9. CASE FoundHealthy
  BY <1>9, <1>t, <1>p, <1>v DEF FoundHealthy
<1>10. CASE NotHealthy
  BY <1>10, <1>t, <1>p, <1>v DEF NotHealthy
<1>11. CASE AllHealthy
  BY <1>11, <1>t, <1>p, <1>v DEF AllHealthy
<1>12. CASE BuildsImage
  BY <1>12, <1>t, <1>p, <1>v DEF BuildsImage
<1>13. CASE BuildFails
  BY <1>13, <1>t, <1>p, <1>v DEF BuildFails
<1>14. CASE Compares
  BY <1>14, <1>t, <1>p, <1>v DEF Compares
<1>15. CASE Prepares
  BY <1>15, <1>t, <1>p, <1>v DEF Prepares
<1>16. CASE PrepareFails
  BY <1>16, <1>t, <1>p, <1>v DEF PrepareFails
<1>17. CASE LooksBefore
  BY <1>17, <1>t, <1>p, <1>v DEF LooksBefore
<1>18. CASE Replaces
  BY <1>18, <1>t, <1>p, <1>v DEF Replaces
<1>19. CASE RunsWell
  BY <1>19, <1>t, <1>p, <1>v DEF RunsWell
<1>20. CASE RunFails
  BY <1>20, <1>t, <1>p, <1>v DEF RunFails
<1>21. CASE NameTaken
  BY <1>21, <1>t, <1>p, <1>v DEF NameTaken
<1>22. CASE NameTakenUnread
  BY <1>22, <1>t, <1>p, <1>v DEF NameTakenUnread
<1>23. CASE AcceptsTaken
  BY <1>23, <1>t, <1>p, <1>v DEF AcceptsTaken
<1>24. CASE AfterFailedRun
  BY <1>24, <1>t, <1>p, <1>v DEF AfterFailedRun
<1>25. CASE BroughtUp
  BY <1>25, <1>t, <1>p, <1>v DEF BroughtUp
<1>26. CASE Clears
  BY <1>26, <1>t, <1>p, <1>v DEF Clears
<1>27. CASE Keeps
  BY <1>27, <1>v DEF Keeps, MayKeep, StandsFirm
<1>28. CASE TurnsToTear
  BY <1>28, <1>t, <1>p, <1>v DEF TurnsToTear
<1>29. CASE Tears
  BY <1>29, <1>t, <1>p, <1>v DEF Tears
<1>30. CASE TurnsToUnmakeNets
  BY <1>30, <1>t, <1>p, <1>v DEF TurnsToUnmakeNets
<1>31. CASE UnmakesNet
  BY <1>31, <1>t, <1>p, <1>v DEF UnmakesNet
<1>32. CASE TurnsToSurvivors
  BY <1>32, <1>t, <1>p, <1>v DEF TurnsToSurvivors
<1>33. CASE FindsSurvivors
  BY <1>33, <1>t, <1>p, <1>v DEF FindsSurvivors
<1>34. CASE CtrlC
  BY <1>34, <1>t, <1>p, <1>v DEF CtrlC
<1>35. CASE World
  BY <1>35, <1>t, <1>p, <1>v DEF World, Exits, Revives, Intrudes, Removed, Becomes
<1>36. CASE UNCHANGED vars
  BY <1>36, <1>t, <1>p, <1>v DEF vars
<1> QED
  BY <1>1, <1>2, <1>3, <1>4, <1>5, <1>6, <1>7, <1>8, <1>9, <1>10, <1>11, <1>12, <1>13, <1>14, <1>15, <1>16, <1>17, <1>18, <1>19, <1>20, <1>21, <1>22, <1>23, <1>24, <1>25, <1>26, <1>27, <1>28, <1>29, <1>30, <1>31, <1>32, <1>33, <1>34, <1>35, <1>36, Zenon DEF Next, Up

\* What the rollback leaves running has its networks, and every dependency this
\* `up` had a hand in, jobs that are over apart.
THEOREM KeptStaysWhole == Spec => []KeptIsWhole
<1>1. Init => TypeOK /\ VisitInv /\ NetInv /\ DepInv
  BY TypeInit, VisitInit, NetInit, DepInit
<1>2. TypeOK /\ VisitInv /\ NetInv /\ DepInv /\ [Next]_vars =>
        TypeOK' /\ VisitInv' /\ NetInv' /\ DepInv'
  BY TypeStep, VisitStep, NetStep, DepStep
<1>3. ASSUME TypeOK, VisitInv, NetInv, DepInv PROVE KeptIsWhole
  <2>1. ASSUME RollingBack \/ Over, NEW s \in kept \cup stays PROVE NetsOf[s] \subseteq nets
    <3>1. NetsOf[s] \subseteq KeptNets /\ NetsOf[s] \subseteq Networks
      BY <1>3, BringUpAssumption DEF KeptNets, TypeOK
    <3>2. pc # "refused"
      BY <1>3, <2>1 DEF VisitInv, Touched, RollingBack
    <3> QED
      BY <1>3, <2>1, <3>1, <3>2 DEF NetInv, RollingBack, Over
  <2>2. ASSUME NEW s \in kept, NEW d \in DependsOn[s] \cap torn PROVE d \in OneShot
    <3>1. s \in made /\ d \in started /\ d \notin kept
      BY <1>3 DEF VisitInv
    <3> QED
      BY <1>3, <3>1 DEF DepInv
  <2> QED
    BY <2>1, <2>2 DEF KeptIsWhole
<1> QED
  BY <1>1, <1>2, <1>3, PTL DEF Spec

-----------------------------------------------------------------------------
(* What is handed to a supervisor after a failure.                         *)

Survivor(s) == box[s].by \in {"before", "up"} => s \in reported

HandInv ==
  /\ pc \notin {"clear", "up"} => marks = Marked \ kept
  /\ pc \notin {"clear", "up", "survive", "failed"} => reported = {}
  /\ pc \notin {"clear", "up"} => \A s \in reported : s \in made => s \in kept \cup stays
  /\ pc = "survive" => \A s \in (existed \cap Taken) \ (torn \cup ToSet(todo)) : Survivor(s)
  /\ pc = "failed" => \A s \in (existed \cap Taken) \ torn : Survivor(s)

LEMMA HandInit == Init => HandInv
BY DEF Init, HandInv

LEMMA HandStep == TypeOK /\ VisitInv /\ ListInv /\ HandInv /\ [Next]_vars => HandInv'
<1> SUFFICES ASSUME TypeOK, VisitInv, ListInv, HandInv, [Next]_vars PROVE HandInv'
  OBVIOUS
<1>o. Taken \subseteq Services /\ ToSet(Order) = Taken /\ ToSet(<<>>) = {}
  BY OrderIsGood, ToSetOfNone
<1>t. todo # <<>> => ToSet(todo) = {On} \cup ToSet(Tail(todo))
  BY TailShrinks DEF TypeOK, On
<1>p. pc \in InService => todo # <<>>
  BY DEF TypeOK, InService
<1>v. /\ ~RollingBack /\ pc # "failed" => kept = {}
      /\ kept \subseteq made
      /\ pc \in {"unmakeNets", "survive", "failed"} => started \ (kept \cup stays) \subseteq torn
  BY DEF VisitInv, ListInv
<1> USE DEF HandInv, Survivor, TypeOK, InLoop, InService, RollingBack, Over, worldVars, loopVars, preVars, backVars,
            seenVars, On, At, Passed, Goes, Visited, Begins, NextOne, Fails, Onwards, Stumbles
<1>1. CASE LeftRunning
  BY <1>1, <1>o, <1>t, <1>p, <1>v DEF LeftRunning
<1>2. CASE Counted
  BY <1>2, <1>o, <1>t, <1>p, <1>v DEF Counted
<1>3. CASE AsksOwner
  BY <1>3, <1>o, <1>t, <1>p, <1>v DEF AsksOwner
<1>4. CASE TurnsToNets
  BY <1>4, <1>o, <1>t, <1>p, <1>v DEF TurnsToNets
<1>5. CASE MakesNet
  BY <1>5, <1>o, <1>t, <1>p, <1>v DEF MakesNet
<1>6. CASE NetRefused
  BY <1>6, <1>o, <1>t, <1>p, <1>v DEF NetRefused
<1>7. CASE EntersLoop
  BY <1>7, <1>o, <1>t, <1>p, <1>v DEF EntersLoop
<1>8. CASE Turn
  BY <1>8, <1>o, <1>t, <1>p, <1>v DEF Turn
<1>9. CASE FoundHealthy
  BY <1>9, <1>o, <1>t, <1>p, <1>v DEF FoundHealthy
<1>10. CASE NotHealthy
  BY <1>10, <1>o, <1>t, <1>p, <1>v DEF NotHealthy
<1>11. CASE AllHealthy
  BY <1>11, <1>o, <1>t, <1>p, <1>v DEF AllHealthy
<1>12. CASE BuildsImage
  BY <1>12, <1>o, <1>t, <1>p, <1>v DEF BuildsImage
<1>13. CASE BuildFails
  BY <1>13, <1>o, <1>t, <1>p, <1>v DEF BuildFails
<1>14. CASE Compares
  BY <1>14, <1>o, <1>t, <1>p, <1>v DEF Compares
<1>15. CASE Prepares
  BY <1>15, <1>o, <1>t, <1>p, <1>v DEF Prepares
<1>16. CASE PrepareFails
  BY <1>16, <1>o, <1>t, <1>p, <1>v DEF PrepareFails
<1>17. CASE LooksBefore
  BY <1>17, <1>o, <1>t, <1>p, <1>v DEF LooksBefore
<1>18. CASE Replaces
  BY <1>18, <1>o, <1>t, <1>p, <1>v DEF Replaces
<1>19. CASE RunsWell
  BY <1>19, <1>o, <1>t, <1>p, <1>v DEF RunsWell
<1>20. CASE RunFails
  BY <1>20, <1>o, <1>t, <1>p, <1>v DEF RunFails
<1>21. CASE NameTaken
  BY <1>21, <1>o, <1>t, <1>p, <1>v DEF NameTaken
<1>22. CASE NameTakenUnread
  BY <1>22, <1>o, <1>t, <1>p, <1>v DEF NameTakenUnread
<1>23. CASE AcceptsTaken
  BY <1>23, <1>o, <1>t, <1>p, <1>v DEF AcceptsTaken
<1>24. CASE AfterFailedRun
  BY <1>24, <1>o, <1>t, <1>p, <1>v DEF AfterFailedRun
<1>25. CASE BroughtUp
  BY <1>25, <1>o, <1>t, <1>p, <1>v DEF BroughtUp
<1>26. CASE Clears
  BY <1>26, <1>o, <1>t, <1>p, <1>v DEF Clears
<1>27. CASE Keeps
  BY <1>27, <1>o, <1>v DEF Keeps, MayKeep
<1>28. CASE TurnsToTear
  BY <1>28, <1>o, <1>t, <1>p, <1>v DEF TurnsToTear
<1>29. CASE Tears
  BY <1>29, <1>o, <1>t, <1>p, <1>v DEF Tears
<1>30. CASE TurnsToUnmakeNets
  BY <1>30, <1>o, <1>t, <1>p, <1>v DEF TurnsToUnmakeNets
<1>31. CASE UnmakesNet
  BY <1>31, <1>o, <1>t, <1>p, <1>v DEF UnmakesNet
<1>32. CASE TurnsToSurvivors
  BY <1>32, <1>o, <1>t, <1>p, <1>v DEF TurnsToSurvivors
<1>33. CASE FindsSurvivors
  <2>1. CASE todo = <<>>
    BY <1>33, <1>o, <2>1 DEF FindsSurvivors
  <2>2. CASE todo # <<>>
    <3>1. PICK look \in Looks(On) :
            reported' = IF Survives(On, look) THEN reported \cup {On} ELSE reported
      BY <1>33, <2>2 DEF FindsSurvivors
    <3>2. /\ pc' = "survive" /\ todo' = Tail(todo)
          /\ UNCHANGED <<box, marks, made, kept, stays, torn, existed>>
      BY <1>33, <2>2 DEF FindsSurvivors
    <3>3. On \in existed \ torn /\ box[On].by \in {"before", "up"} => Survives(On, look)
      <4>1. look = box[On] \/ look = Unknown
        BY DEF Looks
      <4>2. box[On].by \in {"before", "up"} => There(box[On])
        BY DEF There, Unknown, Nothing, Box
      <4>3. On \notin torn => ~(On \in made /\ On \notin kept \cup stays)
        BY <1>33, <1>v DEF FindsSurvivors
      <4> QED
        BY <4>1, <4>2, <4>3 DEF Survives
    <3>4. Survives(On, look) => (On \in made => On \in kept \cup stays)
      BY DEF Survives
    <3>5. \A s \in (existed \cap Taken) \ (torn \cup ToSet(Tail(todo))) :
            box[s].by \in {"before", "up"} => s \in reported'
      BY <1>33, <1>t, <2>2, <3>1, <3>3 DEF FindsSurvivors
    <3> QED
      BY <1>33, <3>1, <3>2, <3>4, <3>5 DEF FindsSurvivors
  <2> QED
    BY <2>1, <2>2
<1>34. CASE CtrlC
  BY <1>34, <1>o, <1>t, <1>p, <1>v DEF CtrlC
<1>35. CASE World
  <2>1. PICK s \in Taken : Exits(s) \/ Revives(s) \/ Intrudes(s) \/ Removed(s)
    BY <1>35 DEF World
  <2>2. PICK b \in Boxes : Becomes(s, b) /\ (b.by = box[s].by \/ b.by \notin {"before", "up"})
    BY <2>1, <1>o, BoxesAre DEF Exits, Revives, Intrudes, Removed, Box
  <2> QED
    BY <1>35, <2>2, <1>o DEF Becomes, World
<1>36. CASE UNCHANGED vars
  BY <1>36, <1>o, <1>t, <1>p, <1>v DEF vars
<1> QED
  BY <1>1, <1>2, <1>3, <1>4, <1>5, <1>6, <1>7, <1>8, <1>9, <1>10, <1>11, <1>12, <1>13, <1>14, <1>15, <1>16, <1>17, <1>18, <1>19, <1>20, <1>21, <1>22, <1>23, <1>24, <1>25, <1>26, <1>27, <1>28, <1>29, <1>30, <1>31, <1>32, <1>33, <1>34, <1>35, <1>36, Zenon DEF Next, Up

\* After a failure a supervisor is given what was there before and still is,
\* answered for or not, and nothing this `up` made and tried to remove.
THEOREM SupervisionIsHandedOn == Spec => []SupervisionHandedOn
<1>1. Init => TypeOK /\ VisitInv /\ ListInv /\ HandInv
  BY TypeInit, VisitInit, ListInit, HandInit
<1>2. TypeOK /\ VisitInv /\ ListInv /\ HandInv /\ [Next]_vars =>
        TypeOK' /\ VisitInv' /\ ListInv' /\ HandInv'
  BY TypeStep, VisitStep, ListStep, HandStep
<1>3. ASSUME TypeOK, VisitInv, ListInv, HandInv PROVE SupervisionHandedOn
  <2> SUFFICES ASSUME pc = "failed"
               PROVE  /\ marks = Marked \ kept
                      /\ \A s \in reported \cap torn : box[s].by # "up"
                      /\ \A s \in (existed \cap Taken) \ torn :
                           box[s].by \in {"before", "up"} => s \in reported
    BY DEF SupervisionHandedOn
  <2>1. \A s \in reported \cap torn : box[s].by # "up"
    BY <1>3 DEF VisitInv, ListInv, HandInv, TypeOK
  <2> QED
    BY <1>3, <2>1 DEF HandInv, Survivor
<1> QED
  BY <1>1, <1>2, <1>3, PTL DEF Spec

-----------------------------------------------------------------------------
(* The gates a service is started behind.                                  *)

GateInv ==
  /\ pc = "await" => Healthy[On] \ waits \subseteq well
  /\ pc \in {"build", "compare", "prepare", "before", "delete", "run"} => Healthy[On] \subseteq well
  /\ InLoop => \A s \in OneShot \cap Taken : Awaited(s) => s \in ended \cup ToSet(todo)

LEMMA GateInit == Init => GateInv
BY DEF Init, GateInv, InLoop

LEMMA GateStep == TypeOK /\ VisitInv /\ GateInv /\ [Next]_vars => GateInv'
<1> SUFFICES ASSUME TypeOK, VisitInv, GateInv, [Next]_vars PROVE GateInv'
  OBVIOUS
<1>o. ToSet(Order) = Taken
  BY OrderIsGood
<1>t. pc \in InService \/ At("head") => ToSet(todo) = {On} \cup ToSet(Tail(todo))
  BY TailShrinks DEF TypeOK, On, At, InService
<1>p. pc \in InService => todo # <<>>
  BY DEF TypeOK, InService
<1>v. pc = "taken" => On \notin OneShot
  BY DEF VisitInv
<1> USE DEF GateInv, TypeOK, InLoop, InService, RollingBack, Over, worldVars, loopVars, preVars, backVars,
            seenVars, On, At, Passed, Goes, Visited, Begins, NextOne, Fails, Onwards, Stumbles
<1>1. CASE LeftRunning
  BY <1>1, <1>o, <1>t, <1>p, <1>v DEF LeftRunning
<1>2. CASE Counted
  BY <1>2, <1>o, <1>t, <1>p, <1>v DEF Counted
<1>3. CASE AsksOwner
  BY <1>3, <1>o, <1>t, <1>p, <1>v DEF AsksOwner
<1>4. CASE TurnsToNets
  BY <1>4, <1>o, <1>t, <1>p, <1>v DEF TurnsToNets
<1>5. CASE MakesNet
  BY <1>5, <1>o, <1>t, <1>p, <1>v DEF MakesNet
<1>6. CASE NetRefused
  BY <1>6, <1>o, <1>t, <1>p, <1>v DEF NetRefused
<1>7. CASE EntersLoop
  BY <1>7, <1>o, <1>t, <1>p, <1>v DEF EntersLoop
<1>8. CASE Turn
  BY <1>8, <1>o, <1>t, <1>p, <1>v DEF Turn
<1>9. CASE FoundHealthy
  BY <1>9, <1>o, <1>t, <1>p, <1>v DEF FoundHealthy
<1>10. CASE NotHealthy
  BY <1>10, <1>o, <1>t, <1>p, <1>v DEF NotHealthy
<1>11. CASE AllHealthy
  BY <1>11, <1>o, <1>t, <1>p, <1>v DEF AllHealthy
<1>12. CASE BuildsImage
  BY <1>12, <1>o, <1>t, <1>p, <1>v DEF BuildsImage
<1>13. CASE BuildFails
  BY <1>13, <1>o, <1>t, <1>p, <1>v DEF BuildFails
<1>14. CASE Compares
  BY <1>14, <1>o, <1>t, <1>p DEF Compares, IsUpToDate
<1>15. CASE Prepares
  BY <1>15, <1>o, <1>t, <1>p, <1>v DEF Prepares
<1>16. CASE PrepareFails
  BY <1>16, <1>o, <1>t, <1>p, <1>v DEF PrepareFails
<1>17. CASE LooksBefore
  BY <1>17, <1>o, <1>t, <1>p, <1>v DEF LooksBefore
<1>18. CASE Replaces
  BY <1>18, <1>o, <1>t, <1>p, <1>v DEF Replaces
<1>19. CASE RunsWell
  BY <1>19, <1>o, <1>t, <1>p, <1>v DEF RunsWell
<1>20. CASE RunFails
  BY <1>20, <1>o, <1>t, <1>p, <1>v DEF RunFails
<1>21. CASE NameTaken
  BY <1>21, <1>o, <1>t, <1>p, <1>v DEF NameTaken
<1>22. CASE NameTakenUnread
  BY <1>22, <1>o, <1>t, <1>p, <1>v DEF NameTakenUnread
<1>23. CASE AcceptsTaken
  BY <1>23, <1>o, <1>t, <1>p, <1>v DEF AcceptsTaken
<1>24. CASE AfterFailedRun
  BY <1>24, <1>o, <1>t, <1>p, <1>v DEF AfterFailedRun
<1>25. CASE BroughtUp
  BY <1>25, <1>o, <1>t, <1>p, <1>v DEF BroughtUp
<1>26. CASE Clears
  BY <1>26, <1>o, <1>t, <1>p, <1>v DEF Clears
<1>27. CASE Keeps
  BY <1>27, <1>o, <1>t, <1>p, <1>v DEF Keeps
<1>28. CASE TurnsToTear
  BY <1>28, <1>o, <1>t, <1>p, <1>v DEF TurnsToTear
<1>29. CASE Tears
  BY <1>29, <1>o, <1>t, <1>p, <1>v DEF Tears
<1>30. CASE TurnsToUnmakeNets
  BY <1>30, <1>o, <1>t, <1>p, <1>v DEF TurnsToUnmakeNets
<1>31. CASE UnmakesNet
  BY <1>31, <1>o, <1>t, <1>p, <1>v DEF UnmakesNet
<1>32. CASE TurnsToSurvivors
  BY <1>32, <1>o, <1>t, <1>p, <1>v DEF TurnsToSurvivors
<1>33. CASE FindsSurvivors
  BY <1>33, <1>o, <1>t, <1>p, <1>v DEF FindsSurvivors
<1>34. CASE CtrlC
  BY <1>34, <1>o, <1>t, <1>p, <1>v DEF CtrlC
<1>35. CASE World
  BY <1>35, <1>o, <1>t, <1>p, <1>v DEF World, Exits, Revives, Intrudes, Removed, Becomes
<1>36. CASE UNCHANGED vars
  BY <1>36, <1>o, <1>t, <1>p, <1>v DEF vars
<1> QED
  BY <1>1, <1>2, <1>3, <1>4, <1>5, <1>6, <1>7, <1>8, <1>9, <1>10, <1>11, <1>12, <1>13, <1>14, <1>15, <1>16, <1>17, <1>18, <1>19, <1>20, <1>21, <1>22, <1>23, <1>24, <1>25, <1>26, <1>27, <1>28, <1>29, <1>30, <1>31, <1>32, <1>33, <1>34, <1>35, <1>36, Zenon DEF Next, Up

\* No service is run before the dependencies it wants healthy have passed a
\* probe and the ones it wants completed have run to their end.
THEOREM DependenciesComeFirst == Spec => DependenciesFirst
<1>1. Init => TypeOK /\ VisitInv /\ GateInv
  BY TypeInit, VisitInit, GateInit
<1>2. TypeOK /\ VisitInv /\ GateInv /\ [Next]_vars => TypeOK' /\ VisitInv' /\ GateInv'
  BY TypeStep, VisitStep, GateStep
<1>3. ASSUME TypeOK, VisitInv, GateInv, RunsWell \/ RunFails
      PROVE  Healthy[On] \subseteq well /\ Completed[On] \cap Taken \subseteq ended
  <2>1. pc = "run" /\ todo # <<>> /\ On \in Taken
    BY <1>3, TailShrinks DEF RunsWell, RunFails, TypeOK, On
  <2>2. Healthy[On] \subseteq well
    BY <1>3, <2>1 DEF GateInv
  <2>3. DependsOn[On] \cap ToSet(todo) = {}
    BY <1>3, <2>1, OrderedTail DEF TypeOK, VisitInv, InLoop, On
  <2>4. Completed[On] \subseteq DependsOn[On] /\ Completed[On] \subseteq OneShot
    BY <2>1, OrderIsGood, BringUpAssumption
  <2>5. \A s \in Completed[On] : Awaited(s)
    BY <2>1 DEF Awaited
  <2> QED
    BY <1>3, <2>1, <2>2, <2>3, <2>4, <2>5 DEF GateInv, InLoop
<1>4. TypeOK /\ VisitInv /\ GateInv =>
        [RunsWell \/ RunFails =>
           Healthy[On] \subseteq well /\ Completed[On] \cap Taken \subseteq ended]_vars
  BY <1>3
<1> QED
  BY <1>1, <1>2, <1>4, PTL DEF Spec, DependenciesFirst
=============================================================================
