--------------------------------- MODULE WebApp ---------------------------------
(***************************************************************************)
(* The dialogs and the search box in one specification.  Neither reads or  *)
(* writes what the other does, so a behaviour is one of the dialogs or one *)
(* of the search box: interleaving the two would show nothing else.        *)
(***************************************************************************)
EXTENDS Dialogs, MembersSearch

VARIABLE part  \* the part of the app that this behaviour is about

webVars == <<vars, searchVars, part>>

WebInit == part \in {"dialogs", "search"} /\ Init /\ SearchInit

WebNext ==
    /\ \/ part = "dialogs" /\ Next /\ UNCHANGED searchVars
       \/ part = "search" /\ SearchNext /\ UNCHANGED vars
    /\ UNCHANGED part

WebSpec == WebInit /\ [][WebNext]_webVars /\ Fairness /\ SearchFairness
==============================================================================
