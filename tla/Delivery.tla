------------------------------ MODULE Delivery ------------------------------
(***************************************************************************)
(* What the outbound pipeline promises for one draft, whoever asks for the *)
(* send and whatever fails: at most one message leaves, and once the app   *)
(* may have sent it the draft is never open for sending again.  A message  *)
(* is one the app sends or the user sends from the draft's copy; a copy    *)
(* the app lost track of when it was made is not the draft's.              *)
(***************************************************************************)
VARIABLES
  phase,  \* "unborn", "open" (may be sent), "sending" (a call may send it), "closed"
  out     \* who sent the message: "nobody", "app", "mail" (the mail app)

dvars == <<phase, out>>

Init == phase = "unborn" /\ out = "nobody"

Draft == phase = "unborn" /\ phase' = "open" /\ UNCHANGED out

Begin == phase = "open" /\ phase' = "sending" /\ UNCHANGED out

\* The app's message leaves; a restart may close the draft with it.
AppSends ==
  /\ phase = "sending" /\ out = "nobody"
  /\ phase' \in {"sending", "closed"} /\ out' = "app"

\* The user sends the copy in the mail app, whatever the app is doing.
MailSends ==
  /\ phase # "unborn" /\ out = "nobody"
  /\ out' = "mail" /\ UNCHANGED phase

\* A send that certainly did not happen leaves the draft open.
Refused ==
  /\ phase = "sending" /\ out # "app"
  /\ phase' = "open" /\ UNCHANGED out

Close == phase \in {"open", "sending"} /\ phase' = "closed" /\ UNCHANGED out

Next == Draft \/ Begin \/ AppSends \/ MailSends \/ Refused \/ Close

Spec == Init /\ [][Next]_dvars
=============================================================================
