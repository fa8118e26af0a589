------------------------------- MODULE Followed -------------------------------
(***************************************************************************)
(* The three components whose operations outlive the request that begins    *)
(* them and are followed from a page: a transfer, a console, the pull of an  *)
(* image.  They share no state, and each has its own Spec.  What has no       *)
(* prefix here is that of Transfer.                                          *)
(***************************************************************************)
EXTENDS Transfer

CONSTANTS
  Socket, NoSocket, Capacity, MaxConsoleEvents,
  Task, NoTask, MaxImageEvents

VARIABLES
  \* Console
  mounted, wsRef, timers, armed, browser, relay, agent, queue, follows, typed, heard, lost,
  early, clicked, consoleEvents,
  \* Images
  present, pulls, broken, posts, polls, intervals, pollRef, modal, pulling, dialog, closers,
  open, detached, imageEvents

C == INSTANCE Console WITH events <- consoleEvents, MaxEvents <- MaxConsoleEvents
I == INSTANCE Images WITH events <- imageEvents, MaxEvents <- MaxImageEvents,
       timers <- intervals, shown <- dialog, mounted <- open

-----------------------------------------------------------------------------
(* What the constants are.                                                 *)

ASSUME TransferAssumption == Home \in Node /\ MaxEvents \in Nat
ASSUME ConsoleAssumption == Capacity \in Nat /\ MaxConsoleEvents \in Nat
ASSUME ImagesAssumption == MaxImageEvents \in Nat

-----------------------------------------------------------------------------
(* The properties of the other two; their modules say what they mean.      *)

\* Every variable of the three components has its type.
TypesOK == TypeOK /\ C!TypeOK /\ I!TypeOK

\* The terminal holds one socket or waits for one.
OneSocket == C!OneSocket

\* No command is dropped once the console has shown output.
ObeyedOnceHeard == C!ObeyedOnceHeard

\* A console that is left is closed towards the agent.
RelayCloses == C!RelayCloses

\* The page stops polling a pull.
PollingStops == I!PollingStops

\* A pull is said to be completed when Docker has the image.
CompletedIsThere == I!CompletedIsThere
=============================================================================
