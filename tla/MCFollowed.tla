------------------------------ MODULE MCFollowed ------------------------------
(***************************************************************************)
(* Small instances of the components of Followed.  They share no state, so   *)
(* a behaviour is one of a single component; "part" says of which.           *)
(***************************************************************************)
EXTENDS Followed, SequencesExt

VARIABLE part

consoleVars == <<mounted, wsRef, timers, armed, browser, relay, agent, queue, follows, typed,
                 heard, lost, early, clicked, consoleEvents>>
imageVars == <<present, pulls, broken, posts, polls, intervals, pollRef, modal, pulling,
               dialog, closers, open, detached, imageEvents>>
allVars == <<part, vars, consoleVars, imageVars>>

\* Names are interchangeable, so one behaviour stands for those that differ in
\* them: transfers and sockets are used in one order, and the first transfer
\* goes to the first of the other nodes.
Used(names, used) ==
  LET order == SetToSeq(names) IN
  \A i \in 2..Len(order) : order[i] \in used => order[i - 1] \in used

Named ==
  /\ Used(Transfer, {t \in Transfer : at[t] # "none"})
  /\ dst[SetToSeq(Transfer)[1]] \in {Home, SetToSeq(Node \ {Home})[1]}
  /\ Used(Socket, {w \in Socket : browser[w] # "none"})

\* The components that are not looked at wait in one of their initial states.
MCInit ==
  /\ part \in {"transfer", "console", "images"}
  /\ Init /\ C!Init /\ I!Init
  /\ Named
  /\ part # "transfer" => \E n \in Node : box[n] = "none"

MCNext ==
  /\ \/ part = "transfer" /\ Next /\ UNCHANGED <<part, consoleVars, imageVars>>
     \/ part = "console" /\ C!Next /\ UNCHANGED <<part, vars, imageVars>>
     \/ part = "images" /\ I!Next /\ UNCHANGED <<part, vars, consoleVars>>
  /\ Named'

\* That of the components.
Fairness ==
  /\ WF_vars(part = "transfer" /\ Progress)
  /\ WF_consoleVars(part = "console" /\ C!Progress)
  /\ WF_imageVars(part = "images" /\ I!Work)
  /\ WF_imageVars(part = "images" /\ I!Tick)
  /\ WF_imageVars(part = "images" /\ I!Reply)

MCSpec == MCInit /\ [][MCNext]_allVars /\ Fairness
=============================================================================
