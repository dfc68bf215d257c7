------------------------- MODULE NatsukiGenerator -------------------------
(***************************************************************************)
(* main() after Parser.parse (lines 2686-2718) and the four backends, as   *)
(* far as they dispatch on a field's tuple and read or write the resolved *)
(* model.                                                                   *)
(*                                                                         *)
(* Every backend walks File.declarations one node per step.  Text is left *)
(* out.  A step keeps three things:                                        *)
(*   - every getattr lookup of a handler, whose absence raises             *)
(*     GeneratorError UnsupportedFeature;                                  *)
(*   - every read of f.attributes['cowned'] by a handler that emits an     *)
(*     ownership guard (the destructors and the debug printer);            *)
(*   - every write of it by the union handlers.                            *)
(* Node attributes (noctor, nodtor) and field default values are          *)
(* abstracted away, as in the parser: every constructor and destructor is *)
(* emitted and every field is initialised by dispatch.  A union-typed     *)
(* field inside a variant is dispatched but its variants are not walked.  *)
(***************************************************************************)
EXTENDS NatsukiResolver

CONSTANTS
    ArgSets,     \* the sets of command-line flags main() may be given
    EmptyEnums   \* enumerations declared with no literal (`enum E {};`)

VARIABLES
    args,     \* the flags of this run
    job,      \* the index in Jobs of the backend main() is at
    gi,       \* 0 before the backend's generate(), else its index in declarations
    written,  \* the output files written so far, as indices in Jobs
    emitted,  \* the ownership guards the handlers have emitted
    report    \* the handler key named by an UnsupportedFeature error

genVars == <<args, job, gi, written, emitted, report>>
allVars == <<vars, genVars>>

(* The backends main() runs, in order, and the flags that select each.    *)
Jobs == <<[gen |-> "Nodes_Dot_H",   flags |-> {"generate_h", "generate_nodes"}],
          [gen |-> "Nodes_Dot_Cpp", flags |-> {"generate_cpp", "generate_nodes"}],
          [gen |-> "Debug_Dot_H",   flags |-> {"generate_h", "generate_debug"}],
          [gen |-> "Debug_Dot_Cpp", flags |-> {"generate_cpp", "generate_debug"}]>>

Selected(j) == Jobs[j].flags \subseteq args

(* The handlers generate_{field,initialiser,destroyer}_{model}_{ownership} *)
(* _{access}_{container} each backend defines: the same 25 keys in all     *)
(* four tables (lines 1549-1825, 1957-2038, 2356-2429, 2449-2529).         *)
FieldKeys ==
    {<<"Aggr", "Full", "Object", "Value">>}
    \cup ({"Enum"} \X {"Full"} \X {"Object"} \X {"Array", "Map", "Optional", "Value"})
    \cup ({"Node"} \X {"Conditional"} \X {"Pointer"} \X {"Array", "Optional", "Value"})
    \cup ({"Node"} \X {"Full"} \X {"Pointer"} \X {"Array", "Map", "Optional", "Value"})
    \cup ({"Node"} \X {"Reference"} \X {"Pointer"} \X {"Array", "MultiMap", "Value"})
    \cup ({"Type"} \X {"Full"} \X {"Object", "Pointer"} \X {"Array", "Map", "Optional", "Value"})
    \cup ({"Type"} \X {"Reference"} \X {"Pointer"} \X {"Array", "Value"})

(* generate_traveller_{model}_{access}_{container} (lines 2545-2668).     *)
TravKeys ==
    {<<"Aggr", "Object", "Value">>}
    \cup ({"Node"} \X {"Pointer"} \X {"Array", "Map", "Optional", "Value"})

KeyOf(f, verb) ==
    IF verb = "traveller" THEN <<f.model, f.acc, f.cont>>
    ELSE <<f.model, f.own, f.acc, f.cont>>

TableOf(verb) == IF verb = "traveller" THEN TravKeys ELSE FieldKeys

(* The handlers that read f.attributes['cowned']: the conditional         *)
(* destroyers (lines 2486-2497) and debug printers (lines 1692-1760).     *)
ReadsGuard(f, verb) == verb \in {"destroyer", "debug"} /\ f.own = "Conditional"

(* generate_initialiser_enum_full_object_value (line 2385) reads          *)
(* resolved_type.values[0].                                                *)
NoFirstLiteral(f, verb) ==
    verb = "initialiser" /\ KeyOf(f, verb) = <<"Enum", "Full", "Object", "Value">>
    /\ f.type \in EmptyEnums

(* getattr(self, fcall, <raise UnsupportedFeature>)(field) for field id,  *)
(* a field of owner (a node or a union variant), reached through prefix   *)
(* (the `holder.variant.` the union handlers prepend, or <<>>).           *)
Emit(st, id, owner, prefix, verb) ==
    LET f == fld[id] IN
    CASE st.err # "none" -> st
      [] KeyOf(f, verb) \notin TableOf(verb) ->
            [st EXCEPT !.err = "UnsupportedFeature", !.key = KeyOf(f, verb)]
      [] NoFirstLiteral(f, verb) -> [st EXCEPT !.err = "IndexError"]
      [] ReadsGuard(f, verb) ->
            [st EXCEPT !.out = @ \cup {[job |-> job, owner |-> owner, name |-> f.name,
                                        prefix |-> prefix,
                                        guard |-> st.D[f.dict]["cowned"]]}]
      [] OTHER -> st

EmitAll(st, ids, owner, verb) ==
    FoldLeft(LAMBDA s, i : Emit(s, i, owner, <<>>, verb), st, ids)

(* The restore after each variant field (lines 1576-1577, 2570-2571):     *)
(* the code writes the field's name back, where it saved the guard.       *)
RestoreCowned(st, id) ==
    IF st.err = "none" /\ HasKey(st.D[fld[id].dict], "cowned")
    THEN [st EXCEPT !.D[fld[id].dict] = SetKey(@, "cowned", fld[id].name)]
    ELSE st

(* The union handlers of the debug printer (lines 1549-1604) and of the   *)
(* traveller (lines 2545-2576): for every variant n and field f of it,    *)
(* prefix f.name and f.attributes['cowned'] with `field.n.`, dispatch on  *)
(* f (the traveller skips fields that are not visitable), and restore.    *)
WalkUnion(st, h, verb) ==
    LET a == fld[h].type
        Field(s, k, i) ==
            IF verb = "traveller" /\ ~fld[i].vis THEN s
            ELSE RestoreCowned(Emit(s, i, <<"variant", a, k>>,
                                    <<fld[h].name, aggrs[a][k].name>>, verb), i)
    IN  FoldLeftDomain(LAMBDA s, k : FoldLeft(LAMBDA s2, i : Field(s2, k, i), s,
                                              aggrs[a][k].fields),
                       st, aggrs[a])

(* A field dispatched by a verb whose union handler walks the variants.   *)
Visit(st, id, owner, verb) ==
    LET s == Emit(st, id, owner, <<>>, verb)
    IN  IF fld[id].model = "Aggr" /\ s.err = "none" THEN WalkUnion(s, id, verb) ELSE s

VisitAll(st, ids, owner, verb) ==
    FoldLeft(LAMBDA s, i : Visit(s, i, owner, verb), st, ids)

(* The variant structs of every union-typed field of node n (lines        *)
(* 2049-2063 and 2208-2218): each variant field dispatched by verb.       *)
VariantStructs(st, n, verb) ==
    FoldLeft(LAMBDA s, h :
                 FoldLeftDomain(LAMBDA s2, k :
                                    EmitAll(s2, aggrs[fld[h].type][k].fields,
                                            <<"variant", fld[h].type, k>>, verb),
                                s, aggrs[fld[h].type]),
             st, SelectSeq(nodes[n].fields, LAMBDA i : fld[i].model = "Aggr"))

DebugNode(st, n) ==
    IF nodes[n].children # <<>> THEN st
    ELSE FoldLeft(LAMBDA s, p : VisitAll(s, nodes[p].fields, <<"node", p>>, "debug"),
                  VisitAll(st, nodes[n].fields, <<"node", n>>, "debug"), nodes[n].parents)

(* generate_node(n) of backend j.                                          *)
NodeStep(j, n, st) ==
    LET own == <<"node", n>>
        F   == nodes[n].fields
    IN  CASE j = 1 -> EmitAll(VariantStructs(st, n, "field"), F, own, "field")
          [] j = 2 ->
               LET s1 == VariantStructs(st, n, "destroyer")
                   s2 == EmitAll(EmitAll(s1, F, own, "initialiser"), F, own, "destroyer")
               IN  IF "visitable" \in file.options
                   THEN VisitAll(s2, SelectSeq(F, LAMBDA i : fld[i].vis), own, "traveller")
                   ELSE s2
          [] j = 3 -> st
          [] j = 4 -> DebugNode(st, n)

-----------------------------------------------------------------------------
Generating == phase = "done" /\ job <= Len(Jobs)

(* A backend whose flags were not both given is not run.                   *)
GenSkip ==
    /\ Generating /\ gi = 0 /\ ~Selected(job)
    /\ job' = job + 1
    /\ UNCHANGED <<vars, args, gi, written, emitted, report>>

(* generate(): the debug backends refuse a file without the `visitable`   *)
(* option (lines 1309-1310, 1387-1388).                                    *)
GenStart ==
    /\ Generating /\ gi = 0 /\ Selected(job)
    /\ IF job \in {3, 4} /\ "visitable" \notin file.options
       THEN Fail("AstNotVisitable") /\ UNCHANGED gi
       ELSE gi' = 1 /\ UNCHANGED <<phase, err>>
    /\ UNCHANGED <<decls, arrow, nodeOrder, nodes, enumOrder, types, aggrOrder,
                   aggrs, fld, dicts, file, resolverVars, args, job, written,
                   emitted, report>>

(* One declaration of the generate() loop: a node's generate_node, or an  *)
(* enumeration, which no handler dispatches on.                             *)
GenDecl ==
    /\ Generating /\ gi \in 1..Len(declarations)
    /\ LET n  == declarations[gi]
           s0 == [D |-> dicts, out |-> emitted, err |-> "none", key |-> <<>>]
           st == IF n \in DOMAIN nodes THEN NodeStep(job, n, s0) ELSE s0
       IN  IF st.err = "none"
           THEN /\ dicts' = st.D /\ emitted' = st.out /\ gi' = gi + 1
                /\ UNCHANGED <<phase, err, report>>
           ELSE /\ End(st.err) /\ report' = st.key
                /\ UNCHANGED <<dicts, emitted, gi>>
    /\ UNCHANGED <<decls, arrow, nodeOrder, nodes, enumOrder, types, aggrOrder,
                   aggrs, fld, file, resolverVars, args, job, written>>

(* open(args.output + ext, 'w').write(...) once generate() returned.      *)
GenWrite ==
    /\ Generating /\ gi = Len(declarations) + 1
    /\ written' = Append(written, job)
    /\ job' = job + 1
    /\ gi' = 0
    /\ UNCHANGED <<vars, args, emitted, report>>

(* main() returns after the last backend.                                  *)
GenExit ==
    /\ phase = "done" /\ job = Len(Jobs) + 1
    /\ phase' = "exit"
    /\ UNCHANGED <<err, decls, arrow, nodeOrder, nodes, enumOrder, types,
                   aggrOrder, aggrs, fld, dicts, file, resolverVars, genVars>>

GenTerminated ==
    /\ phase \in {"exit", "error", "crash"}
    /\ UNCHANGED allVars

GenInit ==
    /\ Init
    /\ args \in ArgSets
    /\ job = 1
    /\ gi = 0
    /\ written = <<>>
    /\ emitted = {}
    /\ report = <<>>

GenNext ==
    \/ ParseStep /\ UNCHANGED <<resolverVars, genVars>>
    \/ (EndOfInput \/ ResolveNode \/ ClearTraits \/ ResolveVariant \/ CommitToFile)
       /\ UNCHANGED genVars
    \/ GenSkip \/ GenStart \/ GenDecl \/ GenWrite \/ GenExit \/ GenTerminated

GenSpec == GenInit /\ [][GenNext]_allVars

-----------------------------------------------------------------------------
(* The owner's guard table: guard name -> the fields it covers.           *)
OwnerGuards(o) == IF o[1] = "node" THEN nodes[o[2]].guards ELSE aggrs[o[2]][o[3]].guards

(* Spec section 4.5 and invariant 8: the destructors and the debug        *)
(* printer test, for every conditionally-owned field, a guard registered  *)
(* for that field in the node or variant that holds it.  The union        *)
(* handlers' restore (lines 1577 and 2571) is the code that can break it. *)
GuardsHonoured ==
    \A e \in emitted :
        /\ e.guard \in DOMAIN OwnerGuards(e.owner)
        /\ e.name \in ToSet(OwnerGuards(e.owner)[e.guard])

(* The fields the backends dispatch on: those of every node and of every  *)
(* variant of a union some node holds.                                     *)
NodeFieldIds == UNION {ToSet(nodes[n].fields) : n \in DOMAIN nodes}
HeldUnions == {fld[i].type : i \in {j \in NodeFieldIds : fld[j].model = "Aggr"}}
VariantFieldIds ==
    UNION {UNION {ToSet(aggrs[a][k].fields) : k \in DOMAIN aggrs[a]} : a \in HeldUnions}
ModelFieldIdsG == NodeFieldIds \cup VariantFieldIds

(* The verbs backend j looks handlers up for.                               *)
Verbs(j) == CASE j = 1 -> {"field"}
              [] j = 2 -> {"initialiser", "destroyer", "traveller"}
              [] j = 3 -> {}
              [] j = 4 -> {"debug"}

=============================================================================
