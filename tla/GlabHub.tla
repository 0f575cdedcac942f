------------------------------- MODULE GlabHub -------------------------------
(***************************************************************************)
(* The Hub's process with its Cernere clients: server.ts passes            *)
(* cernereClientOwner.closeAll() to createShutdown as closeClients.  Only  *)
(* the plugins of a starting or serving Corpus ask for clients, rotate and *)
(* revoke them; a rotation in flight goes on while the process ends.       *)
(***************************************************************************)
EXTENDS CernereOwner, Naturals

VARIABLES stopping, initialization, main, corpus, corpusClosing, store, cleanup, exit

Hub == INSTANCE HubLifecycle

lifecycleVars == <<stopping, initialization, main, corpus, corpusClosing, store, cleanup, exit>>
hubVars == <<vars, lifecycleVars>>

HubInit == Init /\ Hub!Init

WithoutCloseAll(step) ==   \* mutant: shutdown() without closeClients
  step /\ UNCHANGED vars

(* A step of the process; the one that begins shutdown() closes the owner. *)
WithCloseAll(step) == step /\ IF Hub!ShutdownStarts THEN CloseAll ELSE UNCHANGED vars

PluginsRun == main \in {"starting", "serving"}

Plugins ==
  /\ exit = "running"
  /\ \/ PluginsRun /\ (Revoke \/ \E x \in Secrets : Get(x) \/ Rotate(x))
     \/ \E k \in Clients : Authenticated(k)
     \/ \E e \in Entries : entry[e].candidate # None /\ (Activate(e) \/ Abandon(e))
  /\ UNCHANGED lifecycleVars

HubNext == WithCloseAll(Hub!Next) \/ Plugins

(* A rotation is not awaited by shutdown(): its fairness is the process's. *)
HubFairness ==
  /\ WF_hubVars(WithCloseAll(Hub!Progress))
  /\ \A k \in Clients : WF_hubVars(Authenticated(k) /\ Plugins)
  /\ \A e \in Entries : WF_hubVars(entry[e].candidate # None /\ (Activate(e) \/ Abandon(e)) /\ Plugins)

HubSpec == HubInit /\ [][HubNext]_hubVars /\ HubFairness

(* What TLC explores.  Clients and entries, numbered, are interchangeable   *)
(* until they are made, so they are made in the order of their numbers.     *)
MadeInOrder ==
  /\ \A k, l \in Clients : k < l /\ client[l].state # "unused" => client[k].state # "unused"
  /\ \A e, f \in Entries : e < f /\ f \in Made => e \in Made

MCSpec == HubInit /\ [][HubNext /\ MadeInOrder']_hubVars /\ HubFairness

-----------------------------------------------------------------------------
(* The Hub closes from the outside in: no cleanup begins while a Cernere   *)
(* client can still send, and no store ends under a Corpus that serves.    *)
(* Rotations race the signal, and Corpus may come up after it.             *)
ClosesInOrder ==
  /\ (\E s \in Hub!Stores : cleanup[s] # "idle") => OpenClients = {}
  /\ main = "serving" /\ corpus # "closed" => \A s \in Hub!Stores : store[s] # "closed"

EndsClean == Hub!EndsClean
ShutdownEnds == Hub!ShutdownEnds

(* Within the process a rotation ends as well, or the process does.        *)
RotationOrProcessEnds ==
  \A e \in Entries :
    entry[e].candidate # None ~> (entry[e].candidate = None \/ exit # "running")

(* In order and to the end: what the process leaves behind, and when.      *)
ClosesInOrderAndClean == ClosesInOrder /\ EndsClean

(* What makes it inductive: both parts keep their own invariants, and a    *)
(* cleanup begins with the owner's closeAll().                             *)
HubInv ==
  /\ Inv
  /\ Hub!Inv
  /\ (\E s \in Hub!Stores : cleanup[s] # "idle") => ownerClosed

(* Neither a rotation nor a shutdown hangs, though each can await what the *)
(* other takes down.                                                       *)
RotationAndShutdownEnd == RotationOrProcessEnds /\ ShutdownEnds
=============================================================================
