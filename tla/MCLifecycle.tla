------------------------------ MODULE MCLifecycle ------------------------------
(* Two workers, a cache of one block, and scripts that overwrite and fetch blocks. *)
EXTENDS Lifecycle

Put(b) == [do |-> "store", block |-> b]
Get(b) == [do |-> "get", block |-> b]

\* Nothing; a block that is fetched back; a block that is stored, evicted, stored
\* again, evicted again and fetched, beside one of the other worker.
SomeScripts == {<<>>,
                <<Put(0), Put(1), Get(0)>>,
                <<Put(0), Put(1), Put(0), Put(1), Get(0), Get(1)>>}
===============================================================================
