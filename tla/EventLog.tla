------------------------------ MODULE EventLog ------------------------------
(***************************************************************************)
(* The event log of sw_imu/imu/eventlog.h over the memory pool of the      *)
(* kernel, its viewer (src/ui/eventlogmenu.cpp), and the monitor thread    *)
(* that walks the list without a lock (src/ui/ui.cpp).                     *)
(*                                                                         *)
(* The list is the links in the items, and an item keeps its link when it  *)
(* is removed, returned to the pool and taken again: neither the pool, nor *)
(* the constructor, nor add_item() resets it.  Events come from the file   *)
(* system, in the log thread, the USB terminal, a test or the start-up;    *)
(* each runs on a screen of its own, so never while the viewer is open.    *)
(***************************************************************************)
EXTENDS Naturals, Sequences, FiniteSets

CONSTANTS
  max_items,  \* the items of the pool
  MaxClear    \* the user clears the log when it has at most so many items

ASSUME ItemAssumption == max_items \in Nat \ {0} /\ MaxClear \in Nat

VARIABLES
  items_head,
  next,       \* the link of each item
  severity,   \* the severity of each item
  pool,       \* the free items, the one freed last first
  hung,       \* the processor loops in a critical section or a fault
  position,   \* what the viewer shows
  item,       \* the viewer's item
  clearing,   \* the viewer is in clear()
  walk,       \* where the monitor is in the list
  seen,       \* the severities of its walk so far
  shown,      \* the severities in the top row
  added       \* the items added and not removed, in order; the specification's own

memory == <<items_head, next, severity, pool, added>>
viewer == <<position, item, clearing>>
monitor == <<walk, seen, shown>>
vars == <<items_head, next, severity, pool, hung, position, item, clearing,
          walk, seen, shown, added>>

Items == 1 .. max_items
NULL == 0
Pointers == Items \union {NULL}
ASLEEP == max_items + 1   \* the monitor is not in the list

Severities == {"warning", "error"}   \* SEVERITY_NOTE is never added
Positions == {"closed", "items", "clear", "exit"}

TypeOK ==
  /\ items_head \in Pointers
  /\ next \in [Items -> Pointers]
  /\ severity \in [Items -> Severities]
  /\ pool \in Seq(Items) /\ Len(pool) <= max_items
  /\ hung \in BOOLEAN
  /\ position \in Positions
  /\ item \in Pointers
  /\ clearing \in BOOLEAN
  /\ walk \in Pointers \union {ASLEEP}
  /\ seen \subseteq Severities /\ shown \subseteq Severities
  /\ added \in Seq(Items)

\* The memory is zero at reset, and the pool is loaded from its first item on.
Init ==
  /\ items_head = NULL
  /\ next = [i \in Items |-> NULL]
  /\ severity = [i \in Items |-> "warning"]
  /\ pool = [i \in Items |-> max_items + 1 - i]
  /\ hung = FALSE
  /\ position = "closed" /\ item = NULL /\ clearing = FALSE
  /\ walk = ASLEEP /\ seen = {} /\ shown = {}
  /\ added = << >>

-----------------------------------------------------------------------------
(* The list.                                                               *)

\* Where a walk of n steps from i arrives; the last item links to NULL.
Steps(i) ==
  LET at[n \in 0 .. max_items] ==
        IF n = 0 THEN i
        ELSE IF at[n - 1] = NULL THEN NULL ELSE next[at[n - 1]]
  IN  at

\* A walk from i reaches the end, and the items on its way.
Ends(i) == Steps(i)[max_items] = NULL
ListFrom(i) ==
  LET n == CHOOSE k \in 0 .. max_items :
             Steps(i)[k] = NULL /\ \A j \in 0 .. k - 1 : Steps(i)[j] # NULL
  IN  [k \in 1 .. n |-> Steps(i)[k - 1]]

Last(i) == LET l == ListFrom(i) IN l[Len(l)]

\* previous(): the item before i in the list, the first if there is no i.
previous(i) ==
  IF i = items_head THEN NULL
  ELSE IF i = NULL \/ items_head = NULL THEN items_head
  ELSE CHOOSE j \in Items : next[j] = i /\ \E k \in DOMAIN ListFrom(items_head) :
                                             ListFrom(items_head)[k] = j

-----------------------------------------------------------------------------
(* The file system's events.                                               *)

\* Fault: the item is put at the head.
addFront(s) ==
  /\ ~hung /\ position = "closed" /\ pool # << >>
  /\ LET new == Head(pool)
     IN  /\ pool' = Tail(pool)
         /\ severity' = [severity EXCEPT ![new] = s]
         /\ added' = Append(added, new)
         /\ items_head' = new
         /\ next' = [next EXCEPT ![new] = items_head]
         /\ hung' = FALSE
  /\ UNCHANGED <<viewer, monitor>>

\* The item is taken from the pool, constructed, and linked to the last one,
\* which is looked for with interrupts locked.
add(s) ==
  /\ ~hung /\ position = "closed" /\ pool # << >>
  /\ LET new == Head(pool)
     IN  /\ pool' = Tail(pool)
         /\ severity' = [severity EXCEPT ![new] = s]
         /\ added' = Append(added, new)
         /\ \/ /\ items_head = NULL
               /\ items_head' = new
               /\ UNCHANGED <<next, hung>>
            \/ /\ items_head # NULL /\ Ends(items_head)
               /\ next' = [next EXCEPT ![Last(items_head)] = new]
               /\ UNCHANGED <<items_head, hung>>
            \/ /\ items_head # NULL /\ ~Ends(items_head)
               /\ hung' = TRUE
               /\ UNCHANGED <<items_head, next>>
  /\ UNCHANGED <<viewer, monitor>>

\* The pool is empty: the constructor writes through a null pointer, which
\* faults or goes unnoticed, and nothing is added.
addExhausted ==
  /\ ~hung /\ position = "closed" /\ pool = << >>
  /\ hung' \in BOOLEAN
  /\ UNCHANGED <<memory, viewer, monitor>>

-----------------------------------------------------------------------------
(* The viewer.                                                             *)

View(p, i) ==
  /\ position' = p
  /\ item' = i
  /\ UNCHANGED <<memory, hung, clearing, monitor>>

open ==
  /\ ~hung /\ position = "closed"
  /\ View("items", items_head)

Attends == ~hung /\ ~clearing

\* MASK_LEFT
left ==
  /\ Attends
  /\ \/ /\ position = "items"
        /\ View("items", IF previous(item) = NULL /\ item # NULL THEN item ELSE previous(item))
     \/ /\ position = "clear"
        /\ View("items", IF item = NULL THEN NULL ELSE Last(item))
     \/ /\ position = "exit"
        /\ View(IF item = NULL THEN "items" ELSE "clear", item)

\* Fault: an empty log does not skip "clear".
rightNoSkip ==
  /\ Attends
  /\ \/ /\ position = "items" /\ item = NULL
        /\ View("clear", item)
     \/ /\ position = "items" /\ item # NULL
        /\ IF next[item] = NULL THEN View("clear", item) ELSE View("items", next[item])
     \/ position = "clear" /\ View("exit", item)

\* MASK_RIGHT
right ==
  /\ Attends
  /\ \/ /\ position = "items" /\ item = NULL
        /\ View("exit", item)
     \/ /\ position = "items" /\ item # NULL
        /\ IF next[item] = NULL THEN View("clear", item) ELSE View("items", next[item])
     \/ position = "clear" /\ View("exit", item)

\* SELECT at "Clear" starts clear().
select ==
  /\ Attends /\ position = "clear" /\ Len(added) <= MaxClear
  /\ clearing' = TRUE
  /\ UNCHANGED <<memory, hung, position, item, monitor>>

\* One turn of clear(): remove_item(items_head).
remove ==
  /\ ~hung /\ clearing /\ items_head # NULL
  /\ items_head' = next[items_head]
  /\ pool' = <<items_head>> \o pool
  /\ added' = Tail(added)
  /\ UNCHANGED <<next, severity, hung, viewer, monitor>>

\* The end of clear(), where the viewer forgets its item.
cleared ==
  /\ ~hung /\ clearing /\ items_head = NULL
  /\ clearing' = FALSE
  /\ position' = "items" /\ item' = NULL
  /\ UNCHANGED <<memory, hung, monitor>>

\* SELECT at "Exit", BACK, or the held button.
leave ==
  /\ Attends /\ position # "closed"
  /\ View("closed", item)

-----------------------------------------------------------------------------
(* The monitor.                                                            *)

walkStart ==
  /\ ~hung /\ walk = ASLEEP
  /\ walk' = items_head
  /\ seen' = {}
  /\ UNCHANGED <<memory, hung, viewer, shown>>

\* Fault: the last item is left out.
walkStepShort ==
  /\ ~hung /\ walk \in Items
  /\ walk' = next[walk]
  /\ seen' = IF next[walk] = NULL THEN seen ELSE seen \union {severity[walk]}
  /\ UNCHANGED <<memory, hung, viewer, shown>>

walkStep ==
  /\ ~hung /\ walk \in Items
  /\ walk' = next[walk]
  /\ seen' = seen \union {severity[walk]}
  /\ UNCHANGED <<memory, hung, viewer, shown>>

walkEnd ==
  /\ ~hung /\ walk = NULL
  /\ walk' = ASLEEP
  /\ shown' = seen
  /\ UNCHANGED <<memory, hung, viewer, seen>>

run_monitor == walkStart \/ walkStep \/ walkEnd

-----------------------------------------------------------------------------

Next ==
  \/ \E s \in Severities : add(s)
  \/ addExhausted
  \/ open \/ left \/ right \/ select \/ remove \/ cleared \/ leave
  \/ run_monitor

\* The monitor wakes every 500 ms; clear() runs to its end.
Spec == Init /\ [][Next]_vars /\ WF_vars(run_monitor) /\ WF_vars(remove \/ cleared)

-----------------------------------------------------------------------------
(* Properties.                                                             *)

\* "Iterate until the last item": an item of the list has no successor, however
\* often the items have been through the pool.
LastItemExists == Ends(items_head)

\* The list, as the links give it, is what was added and not removed, in order,
\* and the pool has exactly the other items.
ListIsWhatWasAdded ==
  /\ Ends(items_head)
  /\ ListFrom(items_head) = added
  /\ \A i \in Items :
       Cardinality({k \in DOMAIN pool : pool[k] = i})
         + Cardinality({k \in DOMAIN added : added[k] = i}) = 1

\* The viewer's item is in the list whenever the viewer can use it, there is none
\* only when the log is empty, and "Clear" is only offered for an item.
ViewerOnItem ==
  position # "closed" /\ ~clearing =>
    /\ (item = NULL) <=> (added = << >>)
    /\ item # NULL => \E k \in DOMAIN added : added[k] = item
    /\ position = "clear" => item # NULL

Logged(s) == \E k \in DOMAIN added : severity[added[k]] = s

\* An event that stays in the log is shown in the top row, although the monitor
\* walks a list that is changed under it.
EventShown == \A s \in Severities :
  Logged(s) ~> (s \in shown \/ ~Logged(s) \/ hung)

=============================================================================
