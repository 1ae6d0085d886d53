----------------------------- MODULE ObjectTree -----------------------------
(***************************************************************************)
(* The two hierarchies of the database: parent/child/sibling and           *)
(* location/contents/next.  db_objects.c keeps them in the objects as      *)
(* linked lists of object numbers, db_file.c checks them when a database   *)
(* is loaded (validate_hierarchies()), and create(), chparent(), move(),   *)
(* recycle(), renumber(), reset_max_object() and set_player_flag() change  *)
(* them.                                                                   *)
(*                                                                         *)
(* move() and recycle() call verbs (accept, recycle, exitfunc) and carry   *)
(* on when those return, with nothing but object numbers kept meanwhile;   *)
(* the verbs, and the tasks that run while a verb is suspended, may do     *)
(* anything to the database.  Whether an object has such a verb is a       *)
(* choice.                                                                 *)
(*                                                                         *)
(* Permission checks are left out: a wizard passes all of them, so they    *)
(* remove no step.  Owners and property values, the quota included, are    *)
(* the subject of Properties.                                              *)
(***************************************************************************)
EXTENDS Integers, FiniteSets, SequencesExt

CONSTANTS
  MaxObjs,  \* bound on object numbers
  MaxUsers, \* bound on the number of players
  Calls     \* built-in functions that can be waiting for a verb at a time

ASSUME MaxObjsAssumption == MaxObjs \in Nat \ {0}

NOTHING == -1
Oids == 0..(MaxObjs - 1)

VARIABLES
  status,       \* "file": the database as read; "up": in use; "refused"
  objs,         \* the valid objects
  num_objects,  \* one more than the last used object number
  par,          \* up: parent, down: child, across: sibling
  loc,          \* up: location, down: contents, across: next
  user,         \* the objects with FLAG_USER
  all_users,    \* the list all_users
  call          \* the built-in functions that wait for a verb

vars == <<status, objs, num_objects, par, loc, user, all_users, call>>

Ref == Oids \cup {NOTHING}
NoCall == [fn |-> "none", what |-> NOTHING, where |-> NOTHING]
CallOf(fn, what, where) == [fn |-> fn, what |-> what, where |-> where]

Barren == [up     |-> [o \in Oids |-> NOTHING],
           down   |-> [o \in Oids |-> NOTHING],
           across |-> [o \in Oids |-> NOTHING]]

\* What a file may say about the objects S.
Files(S) ==
  LET Field == {f \in [Oids -> Ref] : \A o \in Oids \ S : f[o] = NOTHING}
  IN  [up : Field, down : Field, across : Field]

Init ==
  /\ status = "file"
  /\ objs \in {S \in SUBSET Oids : S # {}}
  /\ num_objects \in {n \in 1..MaxObjs : objs \subseteq 0..(n - 1)}
  /\ \/ par \in Files(objs) /\ loc = Barren
     \/ loc \in Files(objs) /\ par = Barren
  /\ user = {}
  /\ all_users = {}
  /\ call = [c \in Calls |-> NoCall]

-----------------------------------------------------------------------------
(* What the hierarchies should be: a definition that follows no pointers.   *)

Kids(h, o) == {x \in objs : h.up[x] = o}

\* The list of o holds the objects whose `up' is o, each once.
Lists(h, o) ==
  \E s \in SetToSeqs(Kids(h, o)) :
    /\ h.down[o] = IF s = <<>> THEN NOTHING ELSE s[1]
    /\ \A i \in DOMAIN s :
         h.across[s[i]] = IF i = Len(s) THEN NOTHING ELSE s[i + 1]

\* Going up never comes round: every set of objects has one whose `up' is not in it.
Acyclic(h) ==
  \A S \in SUBSET objs : S # {} => \E x \in S : h.up[x] \notin S

WellFormed(h) ==
  /\ \A o \in objs : h.up[o] \in objs \cup {NOTHING}
  /\ Acyclic(h)
  /\ \A o \in objs : Lists(h, o)

-----------------------------------------------------------------------------
(* validate_hierarchies() *)

\* Phase 1: references to invalid objects are made NOTHING.
Fixed(h) ==
  LET ok(r) == IF r \in objs THEN r ELSE NOTHING
  IN  [up     |-> [o \in Oids |-> ok(h.up[o])],
       down   |-> [o \in Oids |-> ok(h.down[o])],
       across |-> [o \in Oids |-> ok(h.across[o])]]

\* The location hierarchy, where an object that is nowhere gets no `next'.
FixedNext(h) ==
  Fixed([h EXCEPT !.across = [o \in Oids |-> IF h.up[o] = NOTHING THEN NOTHING
                                             ELSE h.across[o]]])

\* The n-th object from `start' on.
Nth(field, start, n) ==
  LET at[k \in 0..n] == IF k = 0 THEN start
                        ELSE IF at[k - 1] = NOTHING THEN NOTHING
                        ELSE field[at[k - 1]]
  IN  at[n]

\* The end of the list is taken for a place where the two meet.
CycleFoundNull(field, start) ==
  \E n \in 1..MaxObjs : Nth(field, start, 2 * n) = Nth(field, start, n)

\* Phase 2: `faster' takes two steps for one of `slower'.
CycleFound(field, start) ==
  \E n \in 1..MaxObjs :
    /\ Nth(field, start, 2 * n - 1) # NOTHING
    /\ Nth(field, start, 2 * n) = Nth(field, start, n)

Cycles(h) ==
  \E o \in objs : CycleFound(h.up, h.up[o]) \/ CycleFound(h.across, h.down[o])

\* The objects a loop over the list of o passes.
Passed(h, o) == {Nth(h.across, h.down[o], n) : n \in 0..(MaxObjs - 1)} \ {NOTHING}

\* Phase 3: a list names only objects below it, and names them all.
Claimed(h, o) == \E p \in objs : o \in Passed(h, p) /\ h.up[o] = p

Delusions(h) ==
  \/ \E o \in objs : \E x \in Passed(h, o) : h.up[x] # o
  \/ \E o \in objs : ~Claimed(h, o) /\ h.up[o] # NOTHING

ValidHierarchy(h) == ~Cycles(h) /\ ~Delusions(h)

Load ==
  /\ status = "file"
  /\ par' = Fixed(par)
  /\ loc' = FixedNext(loc)
  /\ status' = IF ValidHierarchy(par') /\ ValidHierarchy(loc') THEN "up" ELSE "refused"
  /\ UNCHANGED <<objs, num_objects, user, all_users, call>>

-----------------------------------------------------------------------------
(* db_change_parent() and db_change_location() *)

\* The places in the list of `where' whose next object is x.
Before(h, where, x) == {l \in Passed(h, where) : h.across[l] = x}

LL_REMOVE(h, where, what) ==
  IF h.down[where] = what
  THEN [h EXCEPT !.down[where] = h.across[what], !.across[what] = NOTHING]
  ELSE [h EXCEPT !.across = [l \in Oids |->
                               IF l = what THEN NOTHING
                               ELSE IF l \in Before(h, where, what) THEN h.across[what]
                               ELSE h.across[l]]]

LL_APPEND(h, where, what) ==
  IF h.down[where] = NOTHING
  THEN [h EXCEPT !.down[where] = what, !.across[what] = NOTHING]
  ELSE [h EXCEPT !.across = [l \in Oids |->
                               IF l = what THEN NOTHING
                               ELSE IF l \in Before(h, where, NOTHING) THEN what
                               ELSE h.across[l]]]

\* o goes from where it is to `to'.
Relink(h, o, to) ==
  LET off == IF h.up[o] = NOTHING THEN h ELSE LL_REMOVE(h, h.up[o], o)
      on  == IF to = NOTHING THEN off ELSE LL_APPEND(off, to, o)
  IN  [on EXCEPT !.up[o] = to]

\* While o has a list, its first object goes to `to'.
RelinkAll(h, o, to) ==
  LET after[n \in 0..MaxObjs] ==
        IF n = 0 THEN h
        ELSE LET was == after[n - 1]
             IN  IF was.down[o] = NOTHING THEN was ELSE Relink(was, was.down[o], to)
  IN  after[MaxObjs]

\* The objects a loop from o upwards passes: those in every set that holds o and
\* the `up' of its members.
AtOrAbove(h, o) ==
  {x \in objs : /\ o # NOTHING
                /\ \A S \in SUBSET objs :
                     o \in S /\ (\A y \in S : h.up[y] \in S \cup {NOTHING}) => x \in S}

-----------------------------------------------------------------------------
(* Built-in functions that call no verb, or whose state does not depend on it *)

Create ==
  \E p \in objs \cup {NOTHING} :
    /\ status = "up"
    /\ num_objects < MaxObjs
    /\ objs' = objs \cup {num_objects}
    /\ num_objects' = num_objects + 1
    /\ par' = Relink(par, num_objects, p)
    /\ UNCHANGED <<status, loc, user, all_users, call>>

\* Whether the names of the properties allow it is left to Properties.
Chparent ==
  \E o \in objs, p \in objs \cup {NOTHING} :
    /\ status = "up"
    /\ o \notin AtOrAbove(par, p)
    /\ par' = Relink(par, o, p)
    /\ UNCHANGED <<status, objs, num_objects, loc, user, all_users, call>>

\* db_renumber_object() on one hierarchy: the field that leads to `old' in the
\* list it is on, and the `up' of the objects below it.
Renamed(h, old, new) ==
  LET up == h.up[old]
      as(field, o) == IF o = new THEN field[old]
                      ELSE IF o = old THEN NOTHING ELSE field[o]
  IN  [up     |-> [o \in Oids |-> IF o \in Passed(h, old) THEN new ELSE as(h.up, o)],
       down   |-> [o \in Oids |-> IF o = up /\ h.down[o] = old THEN new ELSE as(h.down, o)],
       across |-> [o \in Oids |-> IF up # NOTHING /\ o \in Before(h, up, old) THEN new
                                   ELSE as(h.across, o)]]

\* all_users keeps the old number.
RenumberKeepsList ==
  \E old \in objs, new \in Oids \ objs :
    /\ status = "up"
    /\ new < old
    /\ \A x \in 0..(new - 1) : x \in objs
    /\ objs' = (objs \ {old}) \cup {new}
    /\ par' = Renamed(par, old, new)
    /\ loc' = Renamed(loc, old, new)
    /\ user' = IF old \in user THEN (user \ {old}) \cup {new} ELSE user
    /\ UNCHANGED <<status, num_objects, all_users, call>>

Renumber ==
  \E old \in objs, new \in Oids \ objs :
    /\ status = "up"
    /\ new < old
    /\ \A x \in 0..(new - 1) : x \in objs
    /\ objs' = (objs \ {old}) \cup {new}
    /\ par' = Renamed(par, old, new)
    /\ loc' = Renamed(loc, old, new)
    /\ user' = IF old \in user THEN (user \ {old}) \cup {new} ELSE user
    /\ all_users' = IF old \in user /\ old \in all_users
                    THEN (all_users \ {old}) \cup {new} ELSE all_users
    /\ UNCHANGED <<status, num_objects, call>>

\* The caller is a wizard, so there is an object.
ResetMaxObject ==
  /\ status = "up"
  /\ objs # {}
  /\ num_objects' = Max(objs) + 1
  /\ UNCHANGED <<status, objs, par, loc, user, all_users, call>>

SetPlayerFlag ==
  \E o \in objs, yes \in BOOLEAN :
    /\ status = "up"
    /\ yes => Cardinality(user \cup {o}) <= MaxUsers
    /\ user' = IF yes THEN user \cup {o} ELSE user \ {o}
    /\ all_users' = IF yes THEN all_users \cup {o} ELSE all_users \ {o}
    /\ UNCHANGED <<status, objs, num_objects, par, loc, call>>

-----------------------------------------------------------------------------
(* move(): the second part starts when `accept' has returned *)

\* `accept' is trusted not to have moved anything.
DoMoveUnchecked(what, where) ==
  /\ IF /\ what \in objs
        /\ where \in objs \cup {NOTHING}
        /\ loc.up[what] # where
        /\ what # where
     THEN loc' = Relink(loc, what, where)
     ELSE UNCHANGED loc
  /\ UNCHANGED <<status, objs, num_objects, par, user, all_users>>

DoMove(what, where) ==
  /\ IF /\ what \in objs
        /\ where \in objs \cup {NOTHING}
        /\ loc.up[what] # where
        /\ what \notin AtOrAbove(loc, where)
     THEN loc' = Relink(loc, what, where)
     ELSE UNCHANGED loc
  /\ UNCHANGED <<status, objs, num_objects, par, user, all_users>>

Move ==
  \E what \in objs, where \in objs \cup {NOTHING} :
    /\ status = "up"
    /\ DoMove(what, where)
    /\ UNCHANGED call

MoveCallsAccept ==
  \E what \in objs, where \in objs, c \in Calls :
    /\ status = "up"
    /\ call[c] = NoCall
    /\ call' = [call EXCEPT ![c] = CallOf("move", what, where)]
    /\ UNCHANGED <<status, objs, num_objects, par, loc, user, all_users>>

MoveAccepted ==
  \E c \in Calls :
    /\ call[c].fn = "move"
    /\ DoMove(call[c].what, call[c].where)
    /\ call' = [call EXCEPT ![c] = NoCall]

-----------------------------------------------------------------------------
(* recycle(): every verb it calls returns to the loop over the contents *)

\* o has an exitfunc: the first object in o is moved out and o:exitfunc called.
EmptyOne(o) ==
  /\ loc.down[o] # NOTHING
  /\ loc' = Relink(loc, loc.down[o], NOTHING)
  /\ UNCHANGED <<objs, par, user, all_users>>

Emptied(o) == RelinkAll(loc, o, NOTHING)

\* The place where o is has an exitfunc.
Leave(o) ==
  /\ loc.up[o] # NOTHING
  /\ loc' = Relink(Emptied(o), o, NOTHING)
  /\ UNCHANGED <<objs, par, user, all_users>>

\* No verb is called any more: o is destroyed.
Destroy(o) ==
  /\ loc' = LET left == Relink(Emptied(o), o, NOTHING)
            IN  [left EXCEPT !.across[o] = NOTHING]
  /\ par' = LET left == Relink(RelinkAll(par, o, par.up[o]), o, NOTHING)
            IN  [left EXCEPT !.across[o] = NOTHING]
  /\ objs' = objs \ {o}
  /\ user' = user \ {o}
  /\ all_users' = IF o \in user THEN all_users \ {o} ELSE all_users

Recycle ==
  \E o \in objs :
    /\ status = "up"
    /\ Destroy(o)
    /\ UNCHANGED <<status, num_objects, call>>

RecycleCallsVerb ==
  \E o \in objs, c \in Calls :
    /\ status = "up"
    /\ call[c] = NoCall
    /\ call' = [call EXCEPT ![c] = CallOf("recycle", o, NOTHING)]
    /\ \/ UNCHANGED <<objs, par, loc, user, all_users>>
       \/ EmptyOne(o)
       \/ Leave(o)
    /\ UNCHANGED <<status, num_objects>>

RecycleGoesOn ==
  \E c \in Calls :
    LET o == call[c].what
    IN  /\ call[c].fn = "recycle"
        /\ \/ o \in objs /\ (EmptyOne(o) \/ Leave(o)) /\ UNCHANGED call
           \/ /\ call' = [call EXCEPT ![c] = NoCall]
              /\ \/ o \in objs /\ Destroy(o)
                 \/ o \notin objs /\ UNCHANGED <<objs, par, loc, user, all_users>>
        /\ UNCHANGED <<status, num_objects>>

\* The verb raises an error, or its task is killed.
VerbFails ==
  \E c \in Calls :
    /\ call[c] # NoCall
    /\ call' = [call EXCEPT ![c] = NoCall]
    /\ UNCHANGED <<status, objs, num_objects, par, loc, user, all_users>>

Next ==
  \/ Load
  \/ Create \/ Chparent \/ Renumber \/ ResetMaxObject \/ SetPlayerFlag
  \/ Move \/ MoveCallsAccept \/ MoveAccepted
  \/ Recycle \/ RecycleCallsVerb \/ RecycleGoesOn \/ VerbFails

Spec == Init /\ [][Next]_vars

-----------------------------------------------------------------------------
(* Properties *)

HierarchyType == [up : [Oids -> Ref], down : [Oids -> Ref], across : [Oids -> Ref]]

\* The state has its types, every valid object has a number below num_objects
\* (db_create_object() takes num_objects for a number nothing uses) and only valid
\* objects are players.
TypeOK ==
  /\ status \in {"file", "up", "refused"}
  /\ num_objects \in 0..MaxObjs
  /\ objs \subseteq 0..(num_objects - 1)
  /\ par \in HierarchyType
  /\ loc \in HierarchyType
  /\ user \subseteq objs
  /\ all_users \subseteq Oids
  /\ call \in [Calls -> [fn : {"none", "move", "recycle"}, what : Ref, where : Ref]]

\* validate_hierarchies() refuses only hierarchies that are not well-formed.
RefusedIsBroken ==
  status = "refused" => ~(WellFormed(par) /\ WellFormed(loc))

\* From the moment a database is accepted the child and content lists hold
\* exactly the children and the contents, each once, parents and locations are
\* valid and no object is its own ancestor or inside itself, although move() and
\* recycle() go on with stale object numbers after a verb that may have changed
\* everything.
HierarchiesWellFormed == status = "up" => WellFormed(par) /\ WellFormed(loc)

\* players() lists the valid objects with the player flag.
UsersExact == all_users = user
=============================================================================
