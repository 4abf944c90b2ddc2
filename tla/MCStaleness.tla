----------------------------- MODULE MCStaleness -----------------------------
(***************************************************************************)
(* Instances of Staleness.  Four texts: `a` and `aSpaced` write one label  *)
(* set twice, metric relabelling drops `noise` and folds `b` and `bHost`   *)
(* into one series where FoldHosts says so.                                *)
(***************************************************************************)
EXTENDS Staleness, TLC

CONSTANTS FoldHosts, t1, t2, a, aSpaced, b, bHost, noise, labelA, labelB, labelBHost,
          labelNoise

MCRaw == {a, aSpaced, b, bHost, noise}
MCParsed == a :> labelA @@ aSpaced :> labelA @@ b :> labelB
            @@ bHost :> labelBHost @@ noise :> labelNoise
MCFinal == labelA :> labelA @@ labelB :> labelB @@ labelNoise :> Dropped
           @@ labelBHost :> (IF FoldHosts THEN labelB ELSE labelBHost)
MCClock == 1 .. 2

\* The targets share the gauge and nothing else.
MCSymmetry == Permutations(Targets)

Line(raw, stamp) == [raw |-> raw, stamp |-> stamp]

\* Nothing, plain series, a reformatted one, a series stamped with a time that
\* may or may not be the scrape's, the same text plain and stamped, and a body
\* of a line too many for the limit.
MCBodies ==
  { {},
    {Line(a, NoStamp)},
    {Line(a, NoStamp), Line(b, NoStamp)},
    {Line(aSpaced, NoStamp), Line(noise, NoStamp)},
    {Line(a, 2), Line(b, NoStamp)},
    {Line(b, 1), Line(b, NoStamp)},
    {Line(bHost, NoStamp)},
    {Line(a, NoStamp), Line(b, NoStamp), Line(bHost, NoStamp), Line(noise, 1)} }
=============================================================================
