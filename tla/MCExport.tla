------------------------------ MODULE MCExport ------------------------------
(* Instances of ExportItems: two pages, one of them scraped under two URLs. *)
EXTENDS ExportItems

CONSTANTS a, aw, b,      \* URLs: aw is the www. form of a
          ka, kb,        \* their canonical keys
          h1, h2, h3     \* contents

MCCanon == [u \in {a, aw, b} |-> IF u = b THEN kb ELSE ka]

\* Keys spelled as URLs, as they are: a v1 file may list a page under aw too.
MCCanonUrl == [u \in {a, aw, b} |-> IF u = b THEN b ELSE a]

It(u, h) == [url |-> u, hash |-> h, act |-> "undecided"]

\* Both URLs of page a, and page b; a later scrape finds a changed page a, and
\* page b twice.
MCBatches == { <<It(a, h1), It(aw, h1), It(b, h2)>>, <<It(b, h2), It(b, h2), It(a, h3)>> }

\* A list that is the same in every run.
MCSameBatch == { <<It(a, h1), It(aw, h1), It(b, h2)>> }

\* The same in every run, after a scrape of page a whose content fails validation.
MCRetried == { <<It(a, h3), It(aw, h1), It(b, h2)>> }

=============================================================================
