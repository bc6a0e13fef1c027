----------------------------- MODULE MCLiveness -----------------------------
(***************************************************************************)
(* What has to happen: the updater (Update), the flashblocks websocket     *)
(* (Flashblocks) and the loops of cognition (Cognition), side by side.     *)
(* They share no state: part chooses the one that runs.  Release r1        *)
(* announces version 1, r2 version 2.                                      *)
(***************************************************************************)
EXTENDS Update

CONSTANTS Part, r1, r2

VARIABLES part,
          main, conn, token, reader, pinger, reconnect, stopCh,
          thinking, halt, monitor, cycle, worker, stopper, caller, pendingWork,
          item, concepts, pending, activeQuery, userActivity, flowPressure,
          flowTension, readyToAct, txTimes, pressure, tension, measuredAt,
          calls, events, now

MCVersionOf == [r \in Release |-> IF r = r1 THEN 1 ELSE 2]

Flash == INSTANCE Flashblocks WITH MaxReconnects <- 2

Mind == INSTANCE Cognition WITH
  running <- thinking, stopCh <- halt,
  Caller <- {"k1"}, Concept <- {"x"}, QueueSize <- 1, MaxWeight <- 1,
  UserStrength <- 1, ResultStrength <- 1, Full <- 2, Window <- 1,
  MaxCalls <- 1, MaxEvents <- 1, MaxNow <- 1

ofUpdate == vars
ofFlashblocks == <<main, conn, token, reader, pinger, reconnect, stopCh>>
ofCognition == <<thinking, halt, monitor, cycle, worker, stopper, caller,
                 pendingWork, item, concepts, pending, activeQuery,
                 userActivity, flowPressure, flowTension, readyToAct, txTimes,
                 pressure, tension, measuredAt, calls, events, now>>

MCInit == part \in Part /\ Init /\ Flash!Init /\ Mind!Init

(* The parts that do not run.                                              *)
Rest ==
  /\ UNCHANGED part
  /\ part # "update" => UNCHANGED ofUpdate
  /\ part # "flashblocks" => UNCHANGED ofFlashblocks
  /\ part # "cognition" => UNCHANGED ofCognition

MCNext ==
  \/ part = "update" /\ Next /\ Rest
  \/ part = "flashblocks" /\ Flash!Next /\ Rest
  \/ part = "cognition" /\ Mind!Next /\ Rest

MCFairness ==
  \/ part = "update" /\ Fairness
  \/ part = "flashblocks" /\ Flash!Fairness
  \/ part = "cognition" /\ Mind!Fairness

MCSpec == MCInit /\ [][MCNext]_<<part, ofUpdate, ofFlashblocks, ofCognition>>
            /\ MCFairness

-----------------------------------------------------------------------------
(* A flashblocks client that runs is connected again and again, unless     *)
(* reconnectLoop has given up or Start could not connect; and Stop of the  *)
(* client and of cognition returns.  See Flashblocks and Cognition.        *)
LoopsRecoverAndStop ==
  Flash!ConnectionRestored /\ Flash!StopEnds /\ Mind!StopEnds
=============================================================================
