--------------------------- MODULE ProcessLists ---------------------------
(***************************************************************************)
(* The two lists of Kernel/Scheduler/scheduler.c as sequences of pids.     *)
(*                                                                         *)
(* readyList is a circular doubly linked list.  It is read here from       *)
(* readyList.current on, following `next': position 1 is the current       *)
(* process, position 2 the one the CPU goes to next, and the last position *)
(* is the predecessor of the current process.  The empty sequence is       *)
(* counter == 0 (and current == NULL).  blockedList is a linear list;      *)
(* position 1 is blockedList.first.                                        *)
(***************************************************************************)
EXTENDS SequencesExt

(* readyList.current: the process that holds the CPU or gets it next.      *)
Current(ready) == Head(ready)

(* readyList.current = readyList.current->next                             *)
Rotate(ready) == Append(Tail(ready), Head(ready))

(* Linking a new node in front of readyList.current, that is behind every  *)
(* process that is already ready.                                          *)
AddLast(ready, p) == Append(ready, p)

(* Linking a node between readyList.current and its successor.             *)
AddNext(ready, p) == IF ready = <<>> THEN <<p>> ELSE InsertAt(ready, 2, p)

(* Unlinking the node of p.  When p is the current process of readyList    *)
(* the position of `current' passes to its successor.                      *)
Unlink(list, p) == RemoveAt(list, CHOOSE i \in DOMAIN list : list[i] = p)

(* Linking a node at blockedList.first.                                    *)
Push(list, p) == Cons(p, list)
===========================================================================
