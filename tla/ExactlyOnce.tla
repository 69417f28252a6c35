----------------------------- MODULE ExactlyOnce -----------------------------
(***************************************************************************)
(* What resumed export runs promise (docs/persistence-resume.md, "Exactly   *)
(* once, every time"): a page is appended to the output at most once, a     *)
(* page is committed only when a line of its own is there, and a committed  *)
(* page is never exported nor un-committed again.                           *)
(***************************************************************************)
EXTENDS Naturals, Sequences

CONSTANTS Keys, Urls, Hashes, Canon

VARIABLES out,   \* the lines of the output, in order
          done   \* the pages whose commit is durable

Init == out = <<>> /\ done \in SUBSET Keys

Exported(u, h) == \E i \in DOMAIN out : out[i].url = u /\ out[i].hash = h

Export(u, h) ==
    /\ Canon[u] \notin done
    /\ ~Exported(u, h)
    /\ out' = Append(out, [url |-> u, hash |-> h])
    /\ UNCHANGED done

\* A save that failed is made up for by a later one: several pages at once.
Commit(pages) ==
    /\ pages # {}
    /\ \A k \in pages : k \notin done /\ \E i \in DOMAIN out : Canon[out[i].url] = k
    /\ done' = done \cup pages
    /\ UNCHANGED out

Next == \/ \E u \in Urls, h \in Hashes : Export(u, h)
        \/ \E pages \in SUBSET Keys : Commit(pages)

Spec == Init /\ [][Next]_<<out, done>>

=============================================================================
