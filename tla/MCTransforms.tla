----------------------------- MODULE MCTransforms -----------------------------
(***************************************************************************)
(* Instances of Transforms for TLC: images wider, higher and as wide as    *)
(* high, short and long videos, and operations that reach every rounding   *)
(* and every guard.                                                        *)
(***************************************************************************)
EXTENDS Transforms

SmallSources ==
    {[w |-> s[1], h |-> s[2], alpha |-> a, format |-> f] :
        s \in {<<1, 4>>, <<5, 3>>, <<4, 4>>, <<9, 2>>}, a \in BOOLEAN, f \in {"PNG", "TIFF"}}

\* A negative side, none, and sides below, at and above those of the images.
SmallSides == {-1, 0, 1, 2, 4, 5}

SmallRequests == Saveable \union {"", "tiff"}

SmallVideoSides == {0, 2}

SmallFormats == Containers \union {"mkv"}

\* An end of the range, and a value beyond each.
SmallCrfs == {-1, 51, 52}

\* Before the video, in it, and at the end of the short one.
SmallInstants == {-1, 0, 1}

=============================================================================
