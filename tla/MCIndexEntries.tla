--------------------------- MODULE MCIndexEntries ---------------------------
(* The index entry array over names of at most three bytes from '-', '/'  *)
(* and 'a': enough for a file, a sibling that sorts between it and its    *)
(* own subdirectory ("a", "a-", "a/a"), and invalid paths ("/a", "a//").  *)
EXTENDS IndexEntries

MCChars == {45, 47, 97}   \* '-', '/', 'a'

MCNames == UNION { [1..n -> MCChars] : n \in 1..3 }

\* add_to_index passes OK_TO_ADD|OK_TO_REPLACE; update-index --add without
\* --replace passes OK_TO_ADD alone.
MCOptions == { {"ok_to_add"}, {"ok_to_add", "ok_to_replace"} }
=============================================================================
