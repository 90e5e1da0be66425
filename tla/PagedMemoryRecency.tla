---- MODULE PagedMemoryRecency ----
(***************************************************************************)
(* The paged memory manager beside a history its code does not keep: the   *)
(* pages in use, in the order of their last use.                           *)
(***************************************************************************)
EXTENDS PagedMemoryProps

VARIABLE history   \* a sequence of <<process, page>>, the last used at the end

PagesOf(p, T)  == [j \in 1 .. Len(PagesInOrder(T)) |-> <<p, PagesInOrder(T)[j]>>]
Owned          == Procs \X Pages
Without(h, T)  == Keep(h, Owned \ T)

RecencyInit == Init /\ history = << >>

RecencyNext ==
  /\ crash = "no"
  /\ \E p \in Procs :
       \/ /\ \E size \in Sizes : VirtualAllocate(p, size)
          /\ history' = history \o PagesOf(p, Used(p)' \ Used(p))
       \/ /\ \E s \in Used(p) : VirtualFree(p, s)
          /\ history' = Without(history, {p} \X (Used(p) \ Used(p)'))
       \/ \E i \in Pages :
          /\ AccessMemory(p, i)
          /\ history' = IF i \in Used(p)
                        THEN Append(Without(history, {<<p, i>>}), <<p, i>>)
                        ELSE history

RecencySpec == RecencyInit /\ [][RecencyNext]_<<vars, history>>

\* "Sorted by recent used time.  The front is the least recently used, the back
\* is the most recently used" (PagedMemoryManager.h:52): the used frames are in
\* the order in which their pages were last used.
LRUOrder ==
  [j \in 1 .. Len(lru) |-> <<frameInfo[lru[j]].owner, frameInfo[lru[j]].page>>]
    = Keep(history, {x \in Owned : x[2] \in Resident(x[1])})

\* The page a fault sends to the swap area was used before every page that was
\* in memory with it.
EvictsLeastRecentlyUsed ==
  [][\A p, q \in Procs : \A i \in SwappedOut(p), j \in Resident(q) :
       <<p, i>> # <<q, j>> =>
         \E a, b \in 1 .. Len(history) :
           a < b /\ history[a] = <<p, i>> /\ history[b] = <<q, j>>]_<<vars, history>>
====
