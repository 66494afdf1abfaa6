----------------------------- MODULE ProcessStore -----------------------------
(***************************************************************************)
(* The list of objects a process keeps (include/juiz/process_store.h) and  *)
(* what the object factory (src/lib/objectfactory.cpp) names and adds.     *)
(* A store is the sequence of its objects in the order they were added;    *)
(* the operations of a container are kept by the container, here by their  *)
(* owner.                                                                  *)
(***************************************************************************)
EXTENDS Naturals, Sequences

CONSTANT Suffixed(_, _)   \* the name written as a name, or a type's, and a number

NoOwner == "none"
Object(cls, type, name, owner) == [cls |-> cls, type |-> type, name |-> name, owner |-> owner]
NullObject == Object("null", "null", "null", NoOwner)

\* list<T>(): the operations of a container count while the container does.
Listed(store, o) ==
  o.owner = NoOwner \/ \E i \in 1..Len(store) : /\ store[i].cls = "container"
                                                /\ store[i].name = o.owner
ObjectsOf(store, cls) ==
  LET Plain(o) == o.cls = cls /\ o.owner = NoOwner
      Owned(o) == o.cls = cls /\ o.owner # NoOwner /\ Listed(store, o)
  IN  SelectSeq(store, Plain) \o SelectSeq(store, Owned)

\* get<T>(fullName): the first of that name in the list, or the null object.
Get(store, cls, name) ==
  LET found == {i \in 1..Len(store) : /\ store[i].cls = cls /\ store[i].name = name
                                      /\ Listed(store, store[i])}
      plain == {i \in found : store[i].owner = NoOwner}
      First(S) == store[CHOOSE i \in S : \A j \in S : i <= j]
  IN  CASE found = {} -> NullObject
        [] plain # {} -> First(plain)
        [] found # {} /\ plain = {} -> First(found)
\* whether get finds one
Has(store, cls, name) ==
  \E i \in 1..Len(store) :
    store[i].cls = cls /\ store[i].name = name /\ Listed(store, store[i])

\* The name of an object to be created: the one asked for, or its type's name
\* and the number of objects of that type.
Numbered(objs, type) ==
  LET OfType(o) == o.type = type
  IN  Suffixed(type, Len(SelectSeq(objs, OfType)))
FullNameFor(objs, info) ==
  CASE "instanceName" \in DOMAIN info -> info.instanceName
    [] "instanceName" \notin DOMAIN info /\ "fullName" \in DOMAIN info -> info.fullName
    [] DOMAIN info \cap {"instanceName", "fullName"} = {} /\ "typeName" \in DOMAIN info
         -> Numbered(objs, info.typeName)
    [] OTHER -> "object"

\* add<T>: refused when the object is null or its name is taken.  The push is
\* a step of its own, so that requests may come between it and the check.
MayAdd_NoHas(store, o) == o # NullObject
MayAdd(store, o) == o # NullObject /\ ~Has(store, o.cls, o.name)
Pushed(store, o) == Append(store, o)
Added(store, o) == IF MayAdd(store, o) THEN Pushed(store, o) ELSE store

\* del<T>: found among the objects of the class, but erased by name alone, and
\* only from the objects of the process itself.
Deleted(store, cls, name) ==
  LET Stays(o) == o.name # name \/ o.owner # NoOwner
  IN  IF Has(store, cls, name) THEN SelectSeq(store, Stays) ELSE store
===============================================================================
