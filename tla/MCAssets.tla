------------------------------ MODULE MCAssets -------------------------------
(* Three downloads of two URLs that serve the same bytes; u3 serves others. *)
EXTENDS AssetDownloader, TLC

CONSTANTS c1, c2, c3, u1, u2, u3, x, y

MCContent == [u \in Urls |-> IF u = u3 THEN x ELSE y]

\* AssetNamingStrategy::Hash.
MCHashName == MCContent

\* AssetNamingStrategy::Slug: all three end in the same name.
MCSlugName == [u \in Urls |-> x]

Symmetry == Permutations(Calls)

=============================================================================
