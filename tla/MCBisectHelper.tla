--------------------------- MODULE MCBisectHelper ---------------------------
(* Two commits, the default and the alternative terms, a free-form term    *)
(* and the builtin command "skip"; at most two revs per command.          *)
EXTENDS BisectHelper

CONSTANTS c1, c2

MCCommits == {c1, c2}
MCTerms == {"bad", "good", "new", "old", "foo", "skip"}
=============================================================================
