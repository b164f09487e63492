-------------------------------- MODULE MCWebApp --------------------------------
(* WebApp on small instances.                                              *)
EXTENDS WebApp

\* A plain member of the channel.
Plain == [tier |-> "member", self |-> FALSE, kind |-> "human", here |-> TRUE,
          restricted |-> FALSE, banned |-> "no"]
MCPersons == {Plain}
==============================================================================
