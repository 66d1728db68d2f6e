--------------------------- MODULE MCPoliteClient ---------------------------
(***************************************************************************)
(* Instances of PoliteClient for TLC.                                      *)
(***************************************************************************)
EXTENDS PoliteClient, TLC, SequencesExt

CONSTANTS u1, u2, v1, h1, h2

\* Two pages on one host and one on another.
Hosts == (u1 :> h1) @@ (u2 :> h1) @@ (v1 :> h2)
Paths == (u1 :> <<"a">>) @@ (u2 :> <<"a", "b">>) @@ (v1 :> <<"b">>)

\* Two tokens that are part of ours; "bot" is another crawler.
Lengths == ("london" :> 6) @@ ("rent" :> 4)

Lines ==
  {Agent(t) : t \in {"*", "rent", "london", "bot"}}
  \cup {Allow(<<"a", "b">>), CrawlDelay(2)}
  \cup {Disallow(p) : p \in {<<>>, <<"a">>, <<"a", "$">>, <<"*", "b">>}}

\* Every file of at most four lines.
SmallFiles == BoundedSeq(Lines, 4)
=============================================================================
