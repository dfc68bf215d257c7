--------------------------- MODULE NatsukiResolver ---------------------------
(***************************************************************************)
(* Parser.sanity_check (the resolver, lines 888-1225) and                  *)
(* Parser.commit_to_file (the orderer, lines 1227-1250), run by            *)
(* Parser.parse after the last declaration (lines 1252-1280).              *)
(*                                                                         *)
(* sanity_check is one call; the model takes it one loop iteration per    *)
(* step: one step per node of Parser.nodes in insertion order, one step   *)
(* for the trait cleanup, one step per union variant.  Python's local      *)
(* variable `private` outlives the iteration that set it, so it is state  *)
(* (privLocal).  The first error ends the run: "error" for a ParserError, *)
(* "crash" for a Python exception that main() does not catch.             *)
(***************************************************************************)
EXTENDS NatsukiParser

VARIABLES
    ri,           \* index in nodeOrder of the next node sanity_check visits
    ai,           \* index in AggrWork of the next union variant it visits
    privLocal,    \* sanity_check's local `private`: Unbound or a block
    declarations, \* File.declarations, written by commit_to_file
    raw           \* history: the tables as the parser left them

resolverVars == <<ri, ai, privLocal, declarations, raw>>
vars == <<parserVars, resolverVars>>

DefaultGuard == "_owns_fields"
PythonExceptions == {"UnboundLocalError", "IndexError", "KeyError", "AttributeError"}

(* The local `private` before any loop over private blocks has bound it. *)
Unbound == [id |-> <<0, "unbound", 0>>, attrs |-> {}]

End(e) == IF e \in PythonExceptions THEN Crash(e) ELSE Fail(e)

HasKey(d, k) == k \in DOMAIN d
SetKey(d, k, v) == (k :> v) @@ d

(* copy.deepcopy of a trait field's dict, then del 'istrait' and set      *)
(* 'wastrait' (lines 926-928); the same for a verbatim block.             *)
(* Mutant: the copy keeps its istrait key (the `del` forgotten).          *)
WasTraitKeepsMarker(d) == ("wastrait" :> "") @@ d

WasTrait(d) == ("wastrait" :> "") @@ Restrict(d, DOMAIN d \ {"istrait"})
CopyBlock(b) == [b EXCEPT !.attrs = (@ \ {"istrait"}) \cup {"wastrait"}]

-----------------------------------------------------------------------------
(* Trait expansion, lines 916-943, for one parent.  st holds the heaps,    *)
(* the child's fields and blocks, and the local `private`.                *)
RECURSIVE CopyTraitFields(_, _)
CopyTraitFields(ids, st) ==
    IF ids = <<>> \/ st.err # "none" THEN st
    ELSE LET f == st.F[Head(ids)]
         IN  IF ~HasKey(st.D[f.dict], "istrait")
             THEN CopyTraitFields(Tail(ids), st)
             ELSE IF \E j \in 1..Len(st.fields) : st.F[st.fields[j]].name = f.name
             THEN [st EXCEPT !.err = "Trait_redefines_field"]
             ELSE CopyTraitFields(Tail(ids),
                      [st EXCEPT !.D      = Append(@, WasTrait(@[f.dict])),
                                 !.F      = Append(@, [f EXCEPT !.dict = Len(st.D) + 1]),
                                 !.fields = Append(@, Len(st.F) + 1)])

RECURSIVE CopyTraitPrivate(_, _)
CopyTraitPrivate(bs, st) ==
    IF bs = <<>> THEN st
    ELSE LET b == Head(bs)
         IN  IF "istrait" \notin b.attrs
             THEN CopyTraitPrivate(Tail(bs), [st EXCEPT !.privLocal = b])
             ELSE CopyTraitPrivate(Tail(bs),
                      [st EXCEPT !.privLocal = CopyBlock(b),
                                 !.priv      = Append(@, CopyBlock(b))])

(* The public loop tests `private.attributes`, not `public.attributes`    *)
(* (line 938): the local left over from the private loop, or unbound.     *)
RECURSIVE CopyTraitPublic(_, _)
CopyTraitPublic(bs, st) ==
    IF bs = <<>> \/ st.err # "none" THEN st
    ELSE IF st.privLocal = Unbound THEN [st EXCEPT !.err = "UnboundLocalError"]
    ELSE IF "istrait" \notin st.privLocal.attrs THEN CopyTraitPublic(Tail(bs), st)
    ELSE CopyTraitPublic(Tail(bs), [st EXCEPT !.pub = Append(@, CopyBlock(Head(bs)))])

RECURSIVE InheritTraits(_, _)
InheritTraits(ps, st) ==
    IF ps = <<>> \/ st.err # "none" THEN st
    ELSE LET P  == nodes[Head(ps)]
             s1 == CopyTraitFields(P.fields, st)
             s2 == IF s1.err # "none" THEN s1 ELSE CopyTraitPrivate(P.priv, s1)
         IN  InheritTraits(Tail(ps), CopyTraitPublic(P.pub, s2))

-----------------------------------------------------------------------------
(* Guard synthesis, lines 951-960 (and 1097-1106 for variants): an empty  *)
(* cowned value is normalised in the dict, and a guard seen for the first *)
(* time lists every cowned field of the node.                             *)
CownedNames(ids, F, D) ==
    LET sel == SelectSeq(ids, LAMBDA i : HasKey(D[F[i].dict], "cowned"))
    IN  [j \in 1..Len(sel) |-> F[sel[j]].name]

(* Mutant: an empty guard is not replaced by the default.                *)
GuardValueRaw(d) == d["cowned"]

GuardValue(d) == IF d["cowned"] = "" THEN DefaultGuard ELSE d["cowned"]

RECURSIVE RegisterGuards(_, _)
RegisterGuards(ids, st) ==
    IF ids = <<>> THEN st
    ELSE LET f == st.F[Head(ids)]
             d == st.D[f.dict]
         IN  IF ~HasKey(d, "cowned") THEN RegisterGuards(Tail(ids), st)
             ELSE LET D2 == [st.D EXCEPT ![f.dict] = SetKey(d, "cowned", GuardValue(d))]
                      g  == GuardValue(d)
                  IN  RegisterGuards(Tail(ids),
                          [st EXCEPT !.D = D2,
                                     !.guards = IF g \in DOMAIN @ THEN @
                                                ELSE (g :> CownedNames(st.fields, st.F, D2)) @@ @])

-----------------------------------------------------------------------------
(* Field resolution, lines 964-1087 (nodes) and 1110-1225 (variants).     *)
Decorations == {"optional", "reference", "array", "darray", "map", "mmap", "cowned"}

(* The model, looked up in nodes, enums, types, aggrs in that order.      *)
ModelOf(t) ==
    CASE t \in DOMAIN nodes -> "Node"
      [] t \in EnumSet      -> "Enum"
      [] t \in DOMAIN types -> "Type"
      [] t \in DOMAIN aggrs -> "Aggr"
      [] OTHER              -> "None"

(* The pairwise checks, in the order the code makes them, each with the  *)
(* Error it raises.                                                        *)
ConflictingPairs ==
    << <<"optional", "reference", "No_optional_reference_field">>,
       <<"optional", "array",     "No_optional_array_field">>,
       <<"optional", "darray",    "No_optional_array_field">>,
       <<"map",      "array",     "No_map_array_field">>,
       <<"map",      "darray",    "No_map_array_field">>,
       <<"optional", "map",       "No_optional_map_field">>,
       <<"optional", "mmap",      "No_optional_mmap_field">>,
       <<"map",      "mmap",      "No_map_mmap_field">>,
       <<"array",    "mmap",      "No_array_mmap_field">>,
       <<"cowned",   "reference", "No_optional_cowned_field">> >>

ConflictIn(d, pair) == {pair[1], pair[2]} \subseteq DOMAIN d

(* Mutant: the optional/reference check is missing.                      *)
FirstConflictNoOptRef(d) ==
    LET hits == {i \in 2..Len(ConflictingPairs) : ConflictIn(d, ConflictingPairs[i])}
    IN  IF hits = {} THEN "none" ELSE ConflictingPairs[Min(hits)][3]

FirstConflict(d) ==
    LET hits == {i \in 1..Len(ConflictingPairs) : ConflictIn(d, ConflictingPairs[i])}
    IN  IF hits = {} THEN "none" ELSE ConflictingPairs[Min(hits)][3]

(* The errors of one field, in the order the code raises them.  A custom  *)
(* type whose spelling is empty fails at `type[-1]` (IndexError); an mmap *)
(* key that is no custom type fails at `self.types[...]` (KeyError).      *)
FieldError(f, d, inUnion) ==
    LET m == ModelOf(f.type) IN
    CASE m = "None"                                   -> "Field_unknown_type"
      [] m = "Aggr" /\ inUnion                        -> "Union_of_union_not_allowed"
      [] m = "Type" /\ types[f.type] = ""             -> "IndexError"
      [] m = "Aggr" /\ DOMAIN d \cap Decorations # {} -> "Field_union_cannot_be_decorated"
      [] FirstConflict(d) # "none"                    -> FirstConflict(d)
      [] HasKey(d, "map") /\ d["map"] \notin DOMAIN types   -> "Map_key_shud_b_ctype"
      [] HasKey(d, "mmap") /\ d["mmap"] \notin DOMAIN types -> "KeyError"
      [] OTHER                                        -> "none"

(* Lines 1053-1058: the key of a map or multimap is overwritten in the    *)
(* dict by the custom type's underlying spelling.                          *)
RewriteKeys(d) ==
    LET d1 == IF HasKey(d, "map") THEN SetKey(d, "map", types[d["map"]]) ELSE d
    IN  IF HasKey(d1, "mmap") THEN SetKey(d1, "mmap", types[d1["mmap"]]) ELSE d1

(* Table 1: the access, and whether the field is visitable, by model.     *)
(* Mutant: a custom type spelled with a trailing '*' is not a pointer.    *)
AccessOfNoPointerType(m, t) == IF m = "Node" THEN "Pointer" ELSE "Object"

AccessOf(m, t) ==
    IF m = "Node" \/ (m = "Type" /\ types[t] \in PointerSpellings)
    THEN "Pointer" ELSE "Object"

ContainerOf(d) ==
    CASE HasKey(d, "map")      -> "Map"
      [] HasKey(d, "mmap")     -> "MultiMap"
      [] HasKey(d, "array")    -> "Array"
      [] HasKey(d, "darray")   -> "DoubleArray"
      [] HasKey(d, "optional") -> "Optional"
      [] OTHER                 -> "Value"

(* Ownership starts Full; optional keeps it Full, then reference and      *)
(* cowned override it in that order.                                       *)
OwnershipOf(d) ==
    LET o1 == "Full"
        o2 == IF HasKey(d, "reference") THEN "Reference" ELSE o1
    IN  IF HasKey(d, "cowned") THEN "Conditional" ELSE o2

VisitableOf(d, m) ==
    LET v1 == m \in {"Node", "Aggr"}
        v2 == IF HasKey(d, "reference") THEN FALSE ELSE v1
        v3 == IF HasKey(d, "visitable") THEN TRUE ELSE v2
    IN  IF HasKey(d, "notvisitable") THEN FALSE ELSE v3

RECURSIVE ResolveFields(_, _, _)
ResolveFields(ids, st, inUnion) ==
    IF ids = <<>> \/ st.err # "none" THEN st
    ELSE LET f  == st.F[Head(ids)]
             d  == st.D[f.dict]
             e  == FieldError(f, d, inUnion)
             d2 == RewriteKeys(d)
             m  == ModelOf(f.type)
         IN  IF e # "none" THEN [st EXCEPT !.err = e]
             ELSE ResolveFields(Tail(ids),
                      [st EXCEPT !.D[f.dict]    = d2,
                                 !.F[Head(ids)] = [f EXCEPT !.model = m,
                                                            !.acc   = AccessOf(m, f.type),
                                                            !.cont  = ContainerOf(d2),
                                                            !.own   = OwnershipOf(d2),
                                                            !.vis   = VisitableOf(d2, m)]],
                      inUnion)

-----------------------------------------------------------------------------
(* Parser.parse: the loop of parse_natsuki_file ends at EOF and           *)
(* sanity_check starts.                                                    *)
EndOfInput ==
    /\ phase = "parse"
    /\ phase' = "resolve"
    /\ raw' = [nodes |-> nodes, dicts |-> dicts, fld |-> fld]
    /\ UNCHANGED <<err, decls, arrow, nodeOrder, nodes, enumOrder, types,
                   aggrOrder, aggrs, fld, dicts, file, ri, ai, privLocal,
                   declarations>>

(* A node has both parents and children (line 910).                       *)
(* Mutant: the shape check of line 910 is missing.                       *)
IsParentAndChildDropped(N) == FALSE

IsParentAndChild(N) == N.parents # <<>> /\ N.children # <<>>

(* One iteration of sanity_check's loop over Parser.nodes (lines 908-1087): *)
(* shape check, trait expansion from every parent, guards, then every     *)
(* field resolved in order.                                                *)
ResolveNode ==
    /\ phase = "resolve"
    /\ ri <= Len(nodeOrder)
    /\ LET n  == nodeOrder[ri]
           N  == nodes[n]
           t  == InheritTraits(N.parents,
                    [err |-> "none", F |-> fld, D |-> dicts, fields |-> N.fields,
                     priv |-> N.priv, pub |-> N.pub, privLocal |-> privLocal])
           g  == RegisterGuards(t.fields,
                    [F |-> t.F, D |-> t.D, fields |-> t.fields, guards |-> N.guards])
           r  == ResolveFields(t.fields, [err |-> "none", F |-> g.F, D |-> g.D], FALSE)
       IN  CASE IsParentAndChild(N) -> End("Subnode_parent_of_subnode")
                                       /\ UNCHANGED <<nodes, fld, dicts, privLocal, ri>>
             [] t.err # "none"      -> End(t.err)
                                       /\ UNCHANGED <<nodes, fld, dicts, privLocal, ri>>
             [] r.err # "none"      -> End(r.err)
                                       /\ UNCHANGED <<nodes, fld, dicts, privLocal, ri>>
             [] OTHER ->
                /\ nodes' = [nodes EXCEPT ![n] = [@ EXCEPT !.fields = t.fields,
                                                           !.priv   = t.priv,
                                                           !.pub    = t.pub,
                                                           !.guards = g.guards]]
                /\ fld' = r.F
                /\ dicts' = r.D
                /\ privLocal' = t.privLocal
                /\ ri' = ri + 1
                /\ UNCHANGED <<phase, err>>
    /\ UNCHANGED <<decls, arrow, nodeOrder, enumOrder, types, aggrOrder, aggrs,
                   file, ai, declarations, raw>>

(* Lines 1089-1093: trait fields and blocks are dropped from every node.  *)
NotTraitField(i) == ~HasKey(dicts[fld[i].dict], "istrait")
NotTraitBlock(b) == "istrait" \notin b.attrs

ClearTraits ==
    /\ phase = "resolve"
    /\ ri > Len(nodeOrder)
    /\ nodes' = [n \in DOMAIN nodes |->
                    [nodes[n] EXCEPT !.fields = SelectSeq(@, NotTraitField),
                                     !.priv   = SelectSeq(@, NotTraitBlock),
                                     !.pub    = SelectSeq(@, NotTraitBlock)]]
    /\ phase' = "aggrs"
    /\ ai' = 1
    /\ UNCHANGED <<err, decls, arrow, nodeOrder, enumOrder, types, aggrOrder,
                   aggrs, fld, dicts, file, ri, privLocal, declarations, raw>>

(* The (union, variant) pairs of lines 1095-1096, in iteration order.     *)
AggrWork ==
    FlattenSeq([i \in 1..Len(aggrOrder) |->
                   [j \in 1..Len(aggrs[aggrOrder[i]]) |-> <<aggrOrder[i], j>>]])

(* One iteration of the loop over union variants (lines 1096-1225).       *)
ResolveVariant ==
    /\ phase = "aggrs"
    /\ ai <= Len(AggrWork)
    /\ LET a == AggrWork[ai][1]
           j == AggrWork[ai][2]
           V == aggrs[a][j]
           g == RegisterGuards(V.fields,
                   [F |-> fld, D |-> dicts, fields |-> V.fields, guards |-> V.guards])
           r == ResolveFields(V.fields, [err |-> "none", F |-> g.F, D |-> g.D], TRUE)
       IN  IF r.err # "none"
           THEN End(r.err) /\ UNCHANGED <<aggrs, fld, dicts, ai>>
           ELSE /\ aggrs' = [aggrs EXCEPT ![a][j].guards = g.guards]
                /\ fld' = r.F
                /\ dicts' = r.D
                /\ ai' = ai + 1
                /\ UNCHANGED <<phase, err>>
    /\ UNCHANGED <<decls, arrow, nodeOrder, nodes, enumOrder, types, aggrOrder,
                   file, ri, privLocal, declarations, raw>>

-----------------------------------------------------------------------------
(* commit_to_file (lines 1227-1250): enumerations first, then every node, *)
(* each preceded by those of its parents not yet placed.                  *)
Place(n, acc) == [decls |-> Append(acc.decls, n), processed |-> acc.processed \cup {n}]

(* Mutant: a parent is placed again although already processed.         *)
RECURSIVE PlaceParentsUnchecked(_, _)
PlaceParentsUnchecked(ps, acc) ==
    IF ps = <<>> THEN acc ELSE PlaceParentsUnchecked(Tail(ps), Place(Head(ps), acc))

RECURSIVE PlaceParents(_, _)
PlaceParents(ps, acc) ==
    IF ps = <<>> THEN acc
    ELSE PlaceParents(Tail(ps),
             IF Head(ps) \in acc.processed THEN acc ELSE Place(Head(ps), acc))

RECURSIVE PlaceNodes(_, _)
PlaceNodes(ns, acc) ==
    IF ns = <<>> THEN acc
    ELSE IF Head(ns) \in acc.processed THEN PlaceNodes(Tail(ns), acc)
    ELSE PlaceNodes(Tail(ns), Place(Head(ns), PlaceParents(nodes[Head(ns)].parents, acc)))

(* Mutant: the enumerations are not emitted first.                       *)
CommitOrderNoEnums == PlaceNodes(nodeOrder, [decls |-> <<>>, processed |-> {}]).decls

CommitOrder ==
    PlaceNodes(nodeOrder, [decls |-> enumOrder, processed |-> EnumSet]).decls

CommitToFile ==
    /\ phase = "aggrs"
    /\ ai > Len(AggrWork)
    /\ declarations' = CommitOrder
    /\ phase' = "done"
    /\ UNCHANGED <<err, decls, arrow, nodeOrder, nodes, enumOrder, types,
                   aggrOrder, aggrs, fld, dicts, file, ri, ai, privLocal, raw>>

(* The run is over: main() prints the result or the error and exits.      *)
Terminated ==
    /\ phase \in {"done", "error", "crash"}
    /\ UNCHANGED vars

-----------------------------------------------------------------------------
Init ==
    /\ ParserInit
    /\ ri = 1
    /\ ai = 1
    /\ privLocal = Unbound
    /\ declarations = <<>>
    /\ raw = [nodes |-> nodes, dicts |-> dicts, fld |-> fld]

Next ==
    \/ ParseStep /\ UNCHANGED resolverVars
    \/ EndOfInput
    \/ ResolveNode
    \/ ClearTraits
    \/ ResolveVariant
    \/ CommitToFile
    \/ Terminated

Spec == Init /\ [][Next]_vars

-----------------------------------------------------------------------------
(***************************************************************************)
(* Properties.                                                             *)
(***************************************************************************)
Models      == {"None", "Node", "Enum", "Type", "Aggr"}
Ownerships  == {"None", "Full", "Reference", "Conditional"}
Accesses    == {"None", "Pointer", "Object"}
Containers  == {"None", "Value", "Optional", "Map", "Array", "DoubleArray", "MultiMap"}
BlockAttrs  == {"istrait", "wastrait"}

TypeOK ==
    /\ phase \in {"parse", "resolve", "aggrs", "done", "error", "crash"}
    /\ decls \in 0..MaxDecls
    /\ arrow \in ClassNames \cup {NoName}
    /\ nodeOrder \in Seq(ClassNames) /\ DOMAIN nodes = ToSet(nodeOrder)
    /\ enumOrder \in Seq(EnumNames)
    /\ DOMAIN types \subseteq Names /\ \A t \in DOMAIN types : types[t] \in Spellings
    /\ aggrOrder \in Seq(Names) /\ DOMAIN aggrs = ToSet(aggrOrder)
    /\ \A i \in 1..Len(fld) :
          /\ fld[i].name \in FieldNames /\ fld[i].type \in Names
          /\ fld[i].dict \in 1..Len(dicts)
          /\ fld[i].model \in Models /\ fld[i].own \in Ownerships
          /\ fld[i].acc \in Accesses /\ fld[i].cont \in Containers
          /\ fld[i].vis \in BOOLEAN
    /\ \A n \in DOMAIN nodes :
          /\ nodes[n].fields \in Seq(1..Len(fld))
          /\ nodes[n].parents \in Seq(ClassNames) /\ nodes[n].children \in Seq(ClassNames)
          /\ \A j \in 1..Len(nodes[n].priv) : nodes[n].priv[j].attrs \subseteq BlockAttrs
          /\ \A j \in 1..Len(nodes[n].pub) : nodes[n].pub[j].attrs \subseteq BlockAttrs
    /\ privLocal.attrs \subseteq BlockAttrs
    /\ ri \in 1..Len(nodeOrder) + 1
    /\ declarations \in Seq(ClassNames \cup EnumNames)

Done == phase = "done"

Parents(n)  == ToSet(nodes[n].parents)
Children(n) == ToSet(nodes[n].children)

(* Inheritance in a compiled model is one level deep and its links are    *)
(* reciprocal, whatever order the classes, merges and `->` subnodes were  *)
(* declared in (parse_subnode's Subnode_of_subnode check and              *)
(* sanity_check's Subnode_parent_of_subnode check together): a child      *)
(* lists its parent, a parent has no parents, a child has no children.     *)
OneLevelInheritance ==
    Done => \A n \in DOMAIN nodes :
                \A c \in Children(n) :
                    /\ n \in Parents(c)
                    /\ Parents(n) = {}
                    /\ Children(c) = {}

(* commit_to_file emits every enum and every node exactly once, all enums *)
(* first, and every parent before each of its children.                   *)
DeclarationOrder ==
    Done => /\ Len(declarations) = Len(enumOrder) + Len(nodeOrder)
            /\ ToSet(declarations) = EnumSet \cup DOMAIN nodes
            /\ \A i \in 1..Len(enumOrder) : declarations[i] \in EnumSet
            /\ \A i, j \in 1..Len(declarations) :
                  /\ i # j => declarations[i] # declarations[j]
                  /\ (declarations[j] \in DOMAIN nodes /\ declarations[i] \in DOMAIN nodes
                      /\ declarations[i] \in Parents(declarations[j])) => i < j

(* The objects of the compiled model: every node and every union variant, *)
(* and the fields they hold.                                               *)
Holders == {nodes[n] : n \in DOMAIN nodes}
           \cup UNION {ToSet(aggrs[a]) : a \in DOMAIN aggrs}
ModelFieldIds == UNION {ToSet(H.fields) : H \in Holders}
DictOf(i) == dicts[fld[i].dict]

(* Trait expansion (spec section 8, property 2, and invariant 9): after   *)
(* sanity_check every child holds its own copy of each field its parent   *)
(* marked istrait, with the parent's attribute keys, istrait replaced by  *)
(* wastrait, in a dict not shared with the parent's field; no field of    *)
(* the child's own is lost, and no istrait field survives the cleanup.    *)
RawTraitFields(p) ==
    {i \in ToSet(raw.nodes[p].fields) : HasKey(raw.dicts[raw.fld[i].dict], "istrait")}

TraitFieldsPropagated ==
    Done => \A c \in DOMAIN nodes :
        /\ \A i \in ToSet(nodes[c].fields) : ~HasKey(DictOf(i), "istrait")
        /\ \A i \in ToSet(raw.nodes[c].fields) \ RawTraitFields(c) :
              i \in ToSet(nodes[c].fields)
        /\ \A p \in Parents(c) : \A t \in RawTraitFields(p) :
              \E i \in ToSet(nodes[c].fields) :
                  /\ fld[i].name = raw.fld[t].name
                  /\ fld[i].type = raw.fld[t].type
                  /\ fld[i].dict # raw.fld[t].dict
                  /\ DOMAIN DictOf(i) =
                        (DOMAIN raw.dicts[raw.fld[t].dict] \ {"istrait"}) \cup {"wastrait"}

(* Guard synthesis (lines 951-960, 1097-1106): in the compiled model every *)
(* conditionally-owned field of a node or union variant, own or copied    *)
(* from a trait, names a non-empty guard that its holder registered and   *)
(* whose field list contains it.  The generators emit one boolean member  *)
(* per registered guard and test the field's guard before deleting it.    *)
GuardsRegistered ==
    Done => \A H \in Holders : \A i \in ToSet(H.fields) :
        HasKey(DictOf(i), "cowned") =>
            LET g == DictOf(i)["cowned"]
            IN  /\ g # ""
                /\ g \in DOMAIN H.guards
                /\ fld[i].name \in ToSet(H.guards[g])

(* Spec invariant 8: a guard lists exactly the cowned fields of its node. *)
(* The trait cleanup at lines 1089-1093 drops a parent's istrait fields   *)
(* after its guards were computed from them.                               *)
GuardListsExactlyCowned ==
    Done => \A H \in Holders : \A g \in DOMAIN H.guards :
        ToSet(H.guards[g]) = {fld[i].name : i \in {j \in ToSet(H.fields) : HasKey(DictOf(j), "cowned")}}

(* Spec section 3, invariants 5-7, and Table 1 with the overrides of      *)
(* section 4.3 steps 8-10, stated from the spec: the model is the first   *)
(* table that knows the type; the row gives the initial tuple.            *)
ExclusiveSets ==
    {{"optional", "reference"}, {"optional", "array"}, {"optional", "darray"},
     {"map", "array"}, {"map", "darray"}, {"optional", "map"}, {"optional", "mmap"},
     {"map", "mmap"}, {"array", "mmap"}, {"cowned", "reference"}}

Table1 ==
    [Node    |-> [own |-> "Full", acc |-> "Pointer", cont |-> "Value", vis |-> TRUE],
     Enum    |-> [own |-> "Full", acc |-> "Object",  cont |-> "Value", vis |-> FALSE],
     PtrType |-> [own |-> "Full", acc |-> "Pointer", cont |-> "Value", vis |-> FALSE],
     Type    |-> [own |-> "Full", acc |-> "Object",  cont |-> "Value", vis |-> FALSE],
     Aggr    |-> [own |-> "Full", acc |-> "Object",  cont |-> "Value", vis |-> TRUE]]

LookupOrder == <<<<"Node", DOMAIN nodes>>, <<"Enum", EnumSet>>,
                 <<"Type", DOMAIN types>>, <<"Aggr", DOMAIN aggrs>>>>

SpecModel(t) == Head(SelectSeq(LookupOrder, LAMBDA e : t \in e[2]))[1]

ContainerPrecedence == <<<<"map", "Map">>, <<"mmap", "MultiMap">>, <<"array", "Array">>,
                         <<"darray", "DoubleArray">>, <<"optional", "Optional">>>>

SpecTuple(f, d) ==
    LET m    == SpecModel(f.type)
        row  == Table1[IF m = "Type" /\ types[f.type] \in PointerSpellings
                       THEN "PtrType" ELSE m]
        decs == SelectSeq(ContainerPrecedence, LAMBDA e : e[1] \in DOMAIN d)
    IN  [model |-> m,
         own   |-> IF "cowned" \in DOMAIN d THEN "Conditional"
                   ELSE IF "reference" \in DOMAIN d THEN "Reference" ELSE row.own,
         acc   |-> row.acc,
         cont  |-> IF decs = <<>> THEN row.cont ELSE Head(decs)[2],
         vis   |-> IF "notvisitable" \in DOMAIN d THEN FALSE
                   ELSE IF "visitable" \in DOMAIN d THEN TRUE
                   ELSE IF "reference" \in DOMAIN d THEN FALSE ELSE row.vis]

ResolvedFieldsWellFormed ==
    Done => \A i \in ModelFieldIds :
        LET f == fld[i]
            d == DictOf(i)
        IN  /\ \A s \in ExclusiveSets : ~(s \subseteq DOMAIN d)
            /\ f.model = "Aggr" => DOMAIN d \cap Decorations = {}
            /\ \A k \in {"map", "mmap"} \cap DOMAIN d : d[k] \in Spellings
            /\ [model |-> f.model, own |-> f.own, acc |-> f.acc,
                cont |-> f.cont, vis |-> f.vis] = SpecTuple(f, d)

(* Spec invariant 9 for verbatim blocks: every istrait public or private  *)
(* block of a parent reaches each child as a wastrait copy.  The public   *)
(* loop (line 938) tests the private loop's variable.                     *)
TraitBlocksPropagated ==
    Done => \A c \in DOMAIN nodes, vis \in {"pub", "priv"} : \A p \in Parents(c) :
        \A j \in 1..Len(raw.nodes[p][vis]) :
            "istrait" \in raw.nodes[p][vis][j].attrs =>
                \E k \in 1..Len(nodes[c][vis]) :
                    /\ nodes[c][vis][k].id = raw.nodes[p][vis][j].id
                    /\ "wastrait" \in nodes[c][vis][k].attrs

(* The uniqueness rules of spec section 3: node, enumeration, custom type *)
(* and union names are mutually disjoint (invariant 1), and a field name   *)
(* is unique within its owning node or union variant.  parse_custom_type   *)
(* (lines 515-520) never consults Parser.nodes, and parse_node (lines     *)
(* 655-659) compares the new fields only with the node's earlier ones.    *)
DistinctNames(ids) == \A i, j \in 1..Len(ids) : i # j => fld[ids[i]].name # fld[ids[j]].name

NamesUnique ==
    Done => /\ LET T == <<DOMAIN nodes, EnumSet, DOMAIN types, DOMAIN aggrs>>
               IN  \A i, j \in 1..4 : i < j => T[i] \cap T[j] = {}
            /\ \A n \in DOMAIN nodes : DistinctNames(nodes[n].fields)
            /\ \A a \in DOMAIN aggrs : \A k \in DOMAIN aggrs[a] :
                   DistinctNames(aggrs[a][k].fields)

(* Error Map_key_shud_b_ctype (line 1050) is raised only for an input in  *)
(* which some map key does not name a custom type.                         *)
MapKeyErrorOnlyForBadKey ==
    err = "Map_key_shud_b_ctype" =>
        \E i \in 1..Len(raw.fld) :
            LET d == raw.dicts[raw.fld[i].dict]
            IN  HasKey(d, "map") /\ d["map"] \notin DOMAIN types

(* main() catches LexerError, ParserError and GeneratorError only (lines *)
(* 2681-2718): every run ends in "done" or in a reported error, never in  *)
(* a Python exception escaping to the interpreter.                         *)
NoUncaughtException == phase # "crash"
=============================================================================
