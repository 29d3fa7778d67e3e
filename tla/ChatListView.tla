---------------------------- MODULE ChatListView ----------------------------
(***************************************************************************)
(* What a chat list promises to its view: the rows are exactly the chats   *)
(* of the list, most recent first, and one step changes the entry of one   *)
(* chat or clears the list.  ChatListModel implements it with a sequence   *)
(* and an index into it, both patched in place.                            *)
(***************************************************************************)
EXTENDS Integers, Sequences

CONSTANTS
    Chats,      \* a set of integers
    Orders      \* a set of integers

VARIABLES
    entries,    \* chat -> its position in the list
    view        \* the chats, in the order they are shown

vars == <<entries, view>>

Entry == [order: Orders, isPinned: BOOLEAN]

\* Chat c is shown above chat d.
Above(c, d, e) ==
    \/ e[c].order > e[d].order
    \/ e[c].order = e[d].order /\ c > d

IsViewOf(v, e) ==
    /\ {v[i] : i \in DOMAIN v} = DOMAIN e
    /\ \A i, j \in DOMAIN v : i < j => Above(v[i], v[j], e)

Init == entries = <<>> /\ view = <<>>

Put(c, entry) ==
    /\ entries' = [d \in DOMAIN entries \cup {c} |->
                    IF d = c THEN entry ELSE entries[d]]
    /\ IsViewOf(view', entries')

Drop(c) ==
    /\ c \in DOMAIN entries
    /\ entries' = [d \in DOMAIN entries \ {c} |-> entries[d]]
    /\ IsViewOf(view', entries')

Clear == entries' = <<>> /\ view' = <<>>

Next ==
    \/ \E c \in Chats, entry \in Entry : Put(c, entry)
    \/ \E c \in Chats : Drop(c)
    \/ Clear

Spec == Init /\ [][Next]_vars
=============================================================================
