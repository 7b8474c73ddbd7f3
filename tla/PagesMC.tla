------------------------------ MODULE PagesMC ------------------------------
(***************************************************************************)
(* The two pages of the web interface, checked in one run.  They share no  *)
(* variable, so a behaviour stays on the page it begins with: the other    *)
(* one's variables do not move.                                            *)
(***************************************************************************)
EXTENDS ListingMC, FormMC

VARIABLE shown  \* the page of this behaviour

allVars == <<vars, formVars, shown>>

PagesInit ==
    /\ Init /\ FormInit
    /\ \/ shown = "list" /\ maxAttachment = 2
       \/ shown = "form" /\ pageSize = 1

PagesNext ==
    \/ shown = "list" /\ Next /\ UNCHANGED <<formVars, shown>>
    \/ shown = "form" /\ FormNext /\ UNCHANGED <<vars, shown>>

PagesSpec == PagesInit /\ [][PagesNext]_allVars
=============================================================================
