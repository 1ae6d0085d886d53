----------------------------- MODULE Properties -----------------------------
(***************************************************************************)
(* Property definitions and property values of the database:               *)
(* db_properties.c, the built-in functions of property.c, and the parts of *)
(* create(), chparent(), recycle() and renumber() that move values about.  *)
(*                                                                         *)
(* An object lists the properties it defines in propdefs and keeps one     *)
(* Pval for each property it has in propval: first its own, in the order   *)
(* of propdefs, then its parent's, its grandparent's and so on.  Nothing   *)
(* but the position says to which property a value belongs, so adding or   *)
(* deleting a definition and changing a parent must shift the arrays of a  *)
(* whole subtree in step.                                                  *)
(*                                                                         *)
(* Names stand for names up to case that are not built in; a value is      *)
(* CLEAR or opaque.  The children of o are the objects whose parent is o   *)
(* (ObjectTree checks the child lists).  Permission checks are left out: a *)
(* wizard passes all of them, so they remove no step.  Of the permission   *)
(* bits only `c' (PF_CHOWN) decides what happens to values.                *)
(***************************************************************************)
EXTENDS Naturals, FiniteSets, SequencesExt

CONSTANTS
  Objs,      \* object numbers
  NOTHING,   \* #-1
  Owners,    \* the numbers that are given as owners
  Names,     \* property names
  QUOTA,     \* "ownership_quota"
  Values,    \* values other than CLEAR
  CLEAR,     \* TYPE_CLEAR
  MaxDefs,   \* bound on the number of definitions in the database
  MaxChanges \* bound on the changes of owners and permissions

ASSUME ObjsAssumption == IsFiniteSet(Objs)
ASSUME BoundsAssumption == MaxDefs \in Nat /\ MaxChanges \in Nat
ASSUME QuotaAssumption == QUOTA \in Names
ASSUME NothingAssumption == NOTHING \notin Objs /\ Owners \subseteq Objs
ASSUME ClearAssumption == CLEAR \notin Values

VARIABLES
  objs,      \* the valid objects
  parent,    \* o->parent
  owner,     \* o->owner
  propdefs,  \* o->propdefs; def is a mark by which properties tell definitions apart
  propval,   \* o->propval; def marks the definition the value was made for
  changes    \* the changes of owners and permissions so far

vars == <<objs, parent, owner, propdefs, propval, changes>>

Defs == 1..MaxDefs
Propdef == [name : Names, def : Defs]
Pval == [def : Defs, var : Values \cup {CLEAR}, owner : Objs \cup {NOTHING},
         chown : BOOLEAN]

Init ==
  /\ objs \in {S \in SUBSET Objs : S # {}}
  /\ parent = [o \in Objs |-> NOTHING]
  /\ owner = [o \in Objs |-> IF o \in objs THEN o ELSE NOTHING]
  /\ propdefs = [o \in Objs |-> <<>>]
  /\ propval = [o \in Objs |-> <<>>]
  /\ changes = 0

\* The bounded steps.
Change == changes < MaxChanges /\ changes' = changes + 1

-----------------------------------------------------------------------------
(* The loops over objects. *)

\* o, its parent, its grandparent, ... under the parents par.
Path(par, o) ==
  LET up[x \in Objs] ==
        IF par[x] = NOTHING THEN <<x>> ELSE <<x>> \o up[par[x]]
  IN  IF o = NOTHING THEN <<>> ELSE up[o]

\* o and its descendants.
AtOrBelow(par, o) == {d \in Objs : Contains(Path(par, d), o)}

\* The definitions o has, in the order of its slots.
DefsOf(par, o) ==
  LET defs[x \in Objs] ==
        IF par[x] = NOTHING THEN propdefs[x] ELSE propdefs[x] \o defs[par[x]]
  IN  IF o = NOTHING THEN <<>> ELSE defs[o]

CountProperties(par, o) == Len(DefsOf(par, o))

\* db_find_property(): the slot of o for the property `name', 0 if there is none.
FindProperty(par, o, name) ==
  SelectInSeq(DefsOf(par, o), LAMBDA d : d.name = name)

DefinedHere(o, name) == \E i \in DOMAIN propdefs[o] : propdefs[o][i].name = name

\* The descendants are not searched.
PropertyDefinedAt(name, o) == DefinedHere(o, name)

PropertyDefinedAtOrBelow(name, o) ==
  \E d \in AtOrBelow(parent, o) : DefinedHere(d, name)

-----------------------------------------------------------------------------
(* Changing a parent.  db is the part of the database that changes. *)

\* Inherited properties are taken for properties defined on o.
CheckPropertiesInherited(o, new_parent) ==
  \A i \in DOMAIN DefsOf(parent, new_parent) :
     FindProperty(parent, o, DefsOf(parent, new_parent)[i].name) = 0

CheckPropertiesForChparent(o, new_parent) ==
  \A i \in DOMAIN DefsOf(parent, new_parent) :
     ~PropertyDefinedAtOrBelow(DefsOf(parent, new_parent)[i].name, o)

\* The slot that an object owned by w gets from the slot pv of its parent.
Inherited(pv, w) ==
  [pv EXCEPT !.var = CLEAR, !.owner = IF pv.chown THEN w ELSE @]

CommonPropsNone(par, old_parent, new_parent) == 0

\* The number of properties of the nearest object above or at both parents.
CommonProps(par, old_parent, new_parent) ==
  LET new == Path(par, new_parent)
      k   == SelectInSeq(new, LAMBDA x : Contains(Path(par, old_parent), x))
  IN  IF k = 0 THEN 0 ELSE CountProperties(par, new[k])

\* The slots of a descendant are taken for slots of o.
FixPropsLocal(db, o, old, new, common) ==
  LET below == AtOrBelow(db.parent, o)
      source == IF db.parent[o] = NOTHING THEN <<>> ELSE db.propval[db.parent[o]]
      fixed(d) ==
        LET local == Len(propdefs[d])
        IN  SubSeq(db.propval[d], 1, local)
              \o [i \in 1..new |-> Inherited(source[i], db.owner[d])]
              \o SubSeq(db.propval[d], local + old + 1, local + old + common)
  IN  [d \in Objs |-> IF d \in below THEN fixed(d) ELSE db.propval[d]]

\* fix_props() for o and all below it.  Slots 1..local[d] are defined at or below
\* o and stay; `old' slots follow that belong to the old parent down from the
\* common ancestor and go; those of the common ancestor stay.
FixProps(db, o, old, new, common) ==
  LET par == db.parent
      pv  == db.propval
      below == AtOrBelow(par, o)
      local[d \in below] ==
        Len(propdefs[d]) + IF d = o THEN 0 ELSE local[par[d]]
      fixed[d \in below] ==
        LET source == IF d # o THEN fixed[par[d]]
                      ELSE IF par[o] = NOTHING THEN <<>> ELSE pv[par[o]]
            from == IF d = o THEN 0 ELSE local[par[d]]
        IN  SubSeq(pv[d], 1, local[d])
              \o [i \in 1..new |-> Inherited(source[from + i], db.owner[d])]
              \o SubSeq(pv[d], local[d] + old + 1, local[d] + old + common)
  IN  [d \in Objs |-> IF d \in below THEN fixed[d] ELSE pv[d]]

\* db_change_parent(), its check apart.
ChangeParent(db, o, new_parent) ==
  LET old_parent == db.parent[o]
      moved  == [db EXCEPT !.parent[o] = new_parent]
      common == CommonProps(moved.parent, old_parent, new_parent)
      old    == CountProperties(moved.parent, old_parent) - common
      new    == CountProperties(moved.parent, new_parent) - common
  IN  [moved EXCEPT !.propval = FixProps(moved, o, old, new, common)]

\* One after the other.
ChangeParents(db, os, new_parent) ==
  FoldSet(LAMBDA o, d : ChangeParent(d, o, new_parent), db, os)

Db == [parent |-> parent, owner |-> owner, propval |-> propval]

\* decr_quota() and incr_quota() on the owner w: the values of the database
\* afterwards, for a quota that is an integer and for one that is not.
QuotaStored(db, w) ==
  LET n == IF w \in objs THEN FindProperty(db.parent, w, QUOTA) ELSE 0
  IN  IF n = 0 THEN {db.propval}
      ELSE {db.propval} \cup {[db.propval EXCEPT ![w][n].var = v] : v \in Values}

-----------------------------------------------------------------------------
(* create(), chparent(), recycle(), renumber(), o.owner = w *)

Create ==
  \E o \in Objs \ objs, p \in objs \cup {NOTHING}, w \in Owners \cup {NOTHING} :
    \E pv \in QuotaStored(Db, w) :
      LET made == [Db EXCEPT !.owner[o] = IF w = NOTHING THEN o ELSE w, !.propval = pv]
          db   == ChangeParent(made, o, p)
      IN  /\ objs' = objs \cup {o}
          /\ parent' = db.parent
          /\ owner' = db.owner
          /\ propval' = db.propval
          /\ UNCHANGED <<propdefs, changes>>

Chparent ==
  \E o \in objs, p \in objs \cup {NOTHING} :
    LET db == ChangeParent(Db, o, p)
    IN  /\ ~Contains(Path(parent, p), o)
        /\ CheckPropertiesForChparent(o, p)
        /\ parent' = db.parent
        /\ propval' = db.propval
        /\ UNCHANGED <<objs, owner, propdefs, changes>>

\* The end of bf_recycle(): every child goes to the grandparent.
Recycle ==
  \E o \in objs :
    LET kids == {c \in objs : parent[c] = o}
        db   == ChangeParent(ChangeParents(Db, kids, parent[o]), o, NOTHING)
    IN  /\ \A c \in kids : CheckPropertiesForChparent(c, parent[o])
        /\ \E pv \in QuotaStored(db, owner[o]) : propval' = [pv EXCEPT ![o] = <<>>]
        /\ parent' = db.parent
        /\ objs' = objs \ {o}
        /\ owner' = [owner EXCEPT ![o] = NOTHING]
        /\ propdefs' = [propdefs EXCEPT ![o] = <<>>]
        /\ UNCHANGED changes

\* db_renumber_object().  Which of the free numbers is taken does not matter here.
Renumber ==
  \E old \in objs, new \in Objs \ objs :
    LET was(x)  == IF x = new THEN old ELSE IF x = old THEN new ELSE x
        ref(x)  == IF x = old THEN new ELSE x
        owns(x) == IF x = new THEN NOTHING ELSE ref(x)
    IN  /\ Change
        /\ objs' = (objs \ {old}) \cup {new}
        /\ parent' = [x \in Objs |-> ref(parent[was(x)])]
        /\ owner' = [x \in Objs |-> IF x = old THEN NOTHING ELSE owns(owner[was(x)])]
        /\ propdefs' = [x \in Objs |-> propdefs[was(x)]]
        /\ propval' = [x \in Objs |->
             [i \in DOMAIN propval[was(x)] |->
                [propval[was(x)][i] EXCEPT !.owner = owns(@)]]]

SetOwner ==
  \E o \in objs, w \in Owners :
    /\ Change
    /\ owner' = [owner EXCEPT ![o] = w]
    /\ UNCHANGED <<objs, parent, propdefs, propval>>

-----------------------------------------------------------------------------
(* The built-in functions of property.c *)

\* The position of a property of o in the slots of the objects at or below o.
Positions(o, pos) ==
  LET at[d \in AtOrBelow(parent, o)] ==
        IF d = o THEN pos ELSE Len(propdefs[d]) + at[parent[d]]
  IN  at

AddPropdef ==
  \E o \in objs, name \in Names, v \in Values, w \in Owners, c \in BOOLEAN :
    LET used == UNION {{propdefs[x][i].def : i \in DOMAIN propdefs[x]} : x \in objs}
        def  == CHOOSE d \in Defs : d \notin used
        at   == Positions(o, Len(propdefs[o]) + 1)
        pv(d) == [def |-> def, var |-> IF d = o THEN v ELSE CLEAR,
                  owner |-> IF c THEN owner[d] ELSE w, chown |-> c]
    IN  /\ w \in objs
        /\ used # Defs
        /\ FindProperty(parent, o, name) = 0
        /\ ~PropertyDefinedAtOrBelow(name, o)
        /\ propdefs' = [propdefs EXCEPT ![o] = Append(@, [name |-> name, def |-> def])]
        /\ propval' = [d \in Objs |-> IF d \in DOMAIN at
                                      THEN InsertAt(propval[d], at[d], pv(d))
                                      ELSE propval[d]]
        /\ UNCHANGED <<objs, parent, owner, changes>>

DeletePropdef ==
  \E o \in objs, name \in Names :
    LET i  == SelectInSeq(propdefs[o], LAMBDA d : d.name = name)
        at == Positions(o, i)
    IN  /\ i # 0
        /\ propdefs' = [propdefs EXCEPT ![o] = RemoveAt(@, i)]
        /\ propval' = [d \in Objs |-> IF d \in DOMAIN at
                                      THEN RemoveAt(propval[d], at[d])
                                      ELSE propval[d]]
        /\ UNCHANGED <<objs, parent, owner, changes>>

\* db_rename_propdef(): a change of case only is always allowed.
MayRename(o, i, name) ==
  \/ propdefs[o][i].name = name
  \/ FindProperty(parent, o, name) = 0 /\ ~PropertyDefinedAtOrBelow(name, o)

\* set_property_info() with a new name, which must be a property defined on o.
RenameProp ==
  \E o \in objs, w \in Owners, c \in BOOLEAN, name \in Names :
    \E i \in DOMAIN propdefs[o] :
      /\ Change
      /\ w \in objs
      /\ MayRename(o, i, name)
      /\ propdefs' = [propdefs EXCEPT ![o][i].name = name]
      /\ propval' = [propval EXCEPT ![o][i].owner = w, ![o][i].chown = c]
      /\ UNCHANGED <<objs, parent, owner>>

SetPropInfo ==
  \E o \in objs, name \in Names, w \in Owners, c \in BOOLEAN :
    LET n == FindProperty(parent, o, name)
    IN  /\ n # 0
        /\ Change
        /\ w \in objs
        /\ propval' = [propval EXCEPT ![o][n].owner = w, ![o][n].chown = c]
        /\ UNCHANGED <<objs, parent, owner, propdefs>>

ClearPropAny ==
  \E o \in objs, name \in Names :
    LET n == FindProperty(parent, o, name)
    IN  /\ n # 0
        /\ propval' = [propval EXCEPT ![o][n].var = CLEAR]
        /\ UNCHANGED <<objs, parent, owner, propdefs, changes>>

ClearProp ==
  \E o \in objs, name \in Names :
    LET n == FindProperty(parent, o, name)
    IN  /\ n # 0
        /\ ~DefinedHere(o, name)
        /\ propval' = [propval EXCEPT ![o][n].var = CLEAR]
        /\ UNCHANGED <<objs, parent, owner, propdefs, changes>>

\* OP_PUT_PROP: o.name = v
PutProp ==
  \E o \in objs, name \in Names, v \in Values :
    LET n == FindProperty(parent, o, name)
    IN  /\ n # 0
        /\ propval' = [propval EXCEPT ![o][n].var = v]
        /\ UNCHANGED <<objs, parent, owner, propdefs, changes>>

Next ==
  \/ Create \/ Chparent \/ Recycle \/ Renumber \/ SetOwner
  \/ AddPropdef \/ DeletePropdef \/ RenameProp \/ SetPropInfo
  \/ ClearProp \/ PutProp

Spec == Init /\ [][Next]_vars

-----------------------------------------------------------------------------
(* Properties *)

\* The state has its types, and a number without an object has nothing.
TypeOK ==
  /\ objs \subseteq Objs
  /\ changes \in 0..MaxChanges
  /\ \A o \in Objs :
       /\ parent[o] \in objs \cup {NOTHING}
       /\ owner[o] \in Objs \cup {NOTHING}
       /\ ToSet(propdefs[o]) \subseteq Propdef
       /\ ToSet(propval[o]) \subseteq Pval
       /\ o \notin objs => /\ parent[o] = NOTHING /\ owner[o] = NOTHING
                           /\ propdefs[o] = <<>> /\ propval[o] = <<>>

\* Every object has exactly one value for every property it defines or inherits,
\* at the position where db_find_property() looks for it: insert_prop(),
\* remove_prop() and fix_props() keep the arrays of a subtree in step.
SlotsMatch ==
  \A o \in objs :
    [i \in DOMAIN propval[o] |-> propval[o][i].def]
      = [i \in DOMAIN DefsOf(parent, o) |-> DefsOf(parent, o)[i].def]

\* No object has two properties of the same name: add_property(), a rename and
\* chparent() look at the ancestors and at all descendants.
NamesUnique ==
  \A o \in objs : LET defs == DefsOf(parent, o)
                  IN  \A i, j \in DOMAIN defs : defs[i].name = defs[j].name => i = j

\* The value of a property on the object that defines it is never CLEAR, so that
\* the loop in db_find_property() that looks upwards for a value ends there.
ClearEnds ==
  \A o \in objs : \A i \in DOMAIN propdefs[o] : propval[o][i].var # CLEAR

\* bf_recycle() ignores what db_change_parent() returns and takes the first child
\* again: that it ends rests on no child ever being refused by its grandparent.
GrandparentAccepts ==
  \A c \in objs : parent[c] # NOTHING =>
                    CheckPropertiesForChparent(c, parent[parent[c]])

SlotOf(pv, def) == CHOOSE i \in DOMAIN pv : pv[i].def = def
HasDef(pv, def) == \E i \in DOMAIN pv : pv[i].def = def

\* A change of parent leaves the value, owner and permissions of every property
\* that the object and its descendants have before and after as they were; the
\* properties it adds are clear, have the permissions they have on the new
\* parent, and belong to the object's owner if they have the `c' bit, else to the
\* owner on the new parent.
Reparenting ==
  [][objs' = objs =>
       \A m \in objs : parent'[m] # parent[m] =>
         \A o \in objs, d \in Defs :
           HasDef(propval'[o], d) =>
             LET now == propval'[o][SlotOf(propval'[o], d)]
                 on  == propval[parent'[m]][SlotOf(propval[parent'[m]], d)]
             IN  IF HasDef(propval[o], d) THEN now = propval[o][SlotOf(propval[o], d)]
                 ELSE now = [on EXCEPT !.var = CLEAR,
                                       !.owner = IF on.chown THEN owner[o] ELSE @]]_vars
=============================================================================
