---------------------------- MODULE MCProviders ----------------------------
(* What TLC is given for Providers.                                        *)
EXTENDS TLC

CONSTANTS None,
          host  \* the user who creates providers

cars == "cars"
pets == "pets"

\* A name whose slug is also the second one derived from another name.
Derived == ("wash" :> <<"wash", "wash-2">>) @@ ("wash-2" :> <<"wash-2", "wash-2-2">>)

Ask(slug, name, owner, categories) ==
  [ slug |-> slug, name |-> name, owner |-> owner, categories |-> categories ]

AllAsks ==
  { Ask(None, name, host, <<cars>>) : name \in DOMAIN Derived }
  \cup { Ask(None, "wash", None, <<pets, cars, pets>>), Ask("wash", "wash-2", host, <<>>),
         Ask("", "wash", host, <<>>) }

\* What may be refused for its slug.
SlugAsks == { Ask(None, "wash", host, <<>>), Ask("wash", "wash", host, <<cars>>) }
=============================================================================
