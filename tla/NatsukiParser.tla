---------------------------- MODULE NatsukiParser ----------------------------
(***************************************************************************)
(* The parser of natsuki.py (class Parser, src/scripts/natsuki.py) at the  *)
(* level of declarations: every action is one production of               *)
(* parse_declaration applied to the four symbol tables (nodes, enums,     *)
(* types, aggrs).  Tokens, spellings of code and enum literals are        *)
(* abstracted away; what is kept is every table update, every name and    *)
(* redefinition check and the order in which they happen.                 *)
(*                                                                         *)
(* A field's attribute dict is a Python object that parse_field builds     *)
(* once per definition and hands to every name of that definition, and     *)
(* that the resolver later mutates in place.  The model keeps that         *)
(* aliasing: fields live in the heap `fld`, dicts in the heap `dicts`, and *)
(* a field refers to its dict by index.                                   *)
(***************************************************************************)
EXTENDS Naturals, Sequences, FiniteSets, SequencesExt, TLC

CONSTANTS
    Names,            \* identifiers of classes, enums, custom types, unions, variants
    FieldNames,       \* identifiers of fields
    ClassNames,       \* the names a class or subnode declaration may use
    EnumNames,        \* the names an enum declaration may use
    TypeDefs,         \* the #define declarations: records [name, spelling]
    UnionDefs,        \* union declarations: [name, multi, variants: Seq([name, fields])]
    FieldLists,       \* field lists a class may carry: Seq of field definitions
    NodeCode,         \* custom-code lists after a class: Seq of [vis, trait]
    OptionSets,       \* file attribute sets `[[...]];` the input may carry
    FileCode,         \* file-level blocks that may occur: "public", "private"
    IncludeAllowed,   \* whether #include lines occur in the input
    Spellings,        \* underlying spellings of custom types
    PointerSpellings, \* the spellings whose last character is '*'
    MaxDecls          \* bound on the number of declarations in the input

ASSUME PointerSpellings \subseteq Spellings /\ MaxDecls \in Nat

NoName == "NoName"

VARIABLES
    phase,        \* "parse", "resolve", "aggrs", "commit", "done", "error", "crash"
    err,          \* the Error kind (or Python exception) that ended the run
    decls,        \* declarations read so far
    arrow,        \* the top-level class whose `->` subnodes may follow, or NoName
    nodeOrder,    \* Parser.nodes keys in insertion order
    nodes,        \* Parser.nodes: name -> node record
    enumOrder,    \* Parser.enums keys in insertion order
    types,        \* Parser.types: name -> underlying spelling
    aggrOrder,    \* Parser.aggrs keys in insertion order
    aggrs,        \* Parser.aggrs: name -> Seq of variant node records
    fld,          \* heap of Field objects
    dicts,        \* heap of attribute dicts (functions from keys to values)
    file          \* File: counts of includes and file code, and option keys

parserVars == <<phase, err, decls, arrow, nodeOrder, nodes, enumOrder, types,
                aggrOrder, aggrs, fld, dicts, file>>

-----------------------------------------------------------------------------
(* Field(name, tipe, attributes, default), before resolution: model,      *)
(* ownership, access and container are None and is_visitable is False.   *)
NewField(name, tipe, d) ==
    [name |-> name, type |-> tipe, dict |-> d,
     model |-> "None", own |-> "None", acc |-> "None", cont |-> "None",
     vis |-> FALSE]

(* Node(name, attributes): empty lists of fields, parents, children and    *)
(* verbatim blocks, and no guards.                                        *)
EmptyGuards == [g \in {} |-> <<>>]

NewNode == [fields |-> <<>>, parents |-> <<>>, children |-> <<>>,
            pub |-> <<>>, priv |-> <<>>, guards |-> EmptyGuards]

(* A union variant is a Node too; only its name, fields and guards are    *)
(* ever used.                                                              *)
NewVariant(name) == [name |-> name, fields |-> <<>>, guards |-> EmptyGuards]

EnumSet == {enumOrder[i] : i \in 1..Len(enumOrder)}

(* parse_fields / parse_field: one dict per definition, one Field per name *)
(* of that definition, all of them sharing the dict.  Returns the new     *)
(* heaps and the indices of the new fields.                               *)
(* Mutant: the new dict's index is taken before the append (off by one). *)
RECURSIVE AddFieldDefsOffByOne(_, _, _)
AddFieldDefsOffByOne(fl, F, D) ==
    IF fl = <<>> THEN <<F, D, <<>>>>
    ELSE LET d    == Head(fl)
             new  == [j \in 1..Len(d.names) |-> NewField(d.names[j], d.type, Len(D))]
             rest == AddFieldDefsOffByOne(Tail(fl), F \o new, Append(D, d.attrs))
         IN  <<rest[1], rest[2], [j \in 1..Len(d.names) |-> Len(F) + j] \o rest[3]>>

RECURSIVE AddFieldDefs(_, _, _)
AddFieldDefs(fl, F, D) ==
    IF fl = <<>> THEN <<F, D, <<>>>>
    ELSE LET d    == Head(fl)
             di   == Len(D) + 1
             new  == [j \in 1..Len(d.names) |-> NewField(d.names[j], d.type, di)]
             rest == AddFieldDefs(Tail(fl), F \o new, Append(D, d.attrs))
         IN  <<rest[1], rest[2], [j \in 1..Len(d.names) |-> Len(F) + j] \o rest[3]>>

(* Field_redefined: a new field has the name of one the node already has. *)
(* Names repeated inside the new list itself are not compared.            *)
Redefines(old, new, F) ==
    \E i \in 1..Len(old), j \in 1..Len(new) : F[old[i]].name = F[new[j]].name

(* _parse_custom_code: a block carries the attributes written before it.  *)
Block(id, trait) == [id |-> id, attrs |-> IF trait THEN {"istrait"} ELSE {}]

CodeOf(code, vis) ==
    LET s == SelectSeq(code, LAMBDA b : b.vis = vis)
    IN  [j \in 1..Len(s) |-> Block(<<decls + 1, vis, j>>, s[j].trait)]

(* parse_custom_code loops only on PUBLIC, PRIVATE and [[; a bare { ... } *)
(* is left for parse_node, whose consume(SEMICOLON) then fails.           *)
HasBareBlock(code) == \E j \in 1..Len(code) : code[j].vis = "bare"

(* The name checks at the head of parse_node, in their order.             *)
ClassNameError(name) ==
    CASE name \in EnumSet         -> "Name_ad_enum"
      [] name \in DOMAIN types    -> "Name_ad_ctype"
      [] name \in DOMAIN aggrs    -> "Name_ad_aggr"
      [] OTHER                    -> "none"

Fail(e)  == phase' = "error" /\ err' = e
Crash(e) == phase' = "crash" /\ err' = e

ReadDecl == phase = "parse" /\ decls < MaxDecls /\ decls' = decls + 1

Abort(e) == Fail(e) /\ UNCHANGED <<arrow, nodeOrder, nodes, enumOrder, types,
                                   aggrOrder, aggrs, fld, dicts, file>>

-----------------------------------------------------------------------------
(* parse_node (lines 632-674) without its subnode loop: the name checks,  *)
(* the node created on first use and extended afterwards (its attributes  *)
(* are those of the first declaration), the new fields checked against    *)
(* the old ones, then the custom code and the closing ';'.                *)
ClassStep(name, fl, code) ==
    LET N   == IF name \in DOMAIN nodes THEN nodes[name] ELSE NewNode
        add == AddFieldDefs(fl, fld, dicts)
        N2  == [N EXCEPT !.fields = @ \o add[3],
                         !.pub    = @ \o CodeOf(code, "public"),
                         !.priv   = @ \o CodeOf(code, "private")]
    IN  [err   |-> CASE ClassNameError(name) # "none" -> ClassNameError(name)
                     [] Redefines(N.fields, add[3], add[1]) -> "Field_redefined"
                     [] HasBareBlock(code) -> "Expecting_this_got_that"
                     [] OTHER -> "none",
         nodes |-> (name :> N2) @@ nodes,
         order |-> IF name \in DOMAIN nodes THEN nodeOrder
                   ELSE Append(nodeOrder, name),
         fld   |-> add[1],
         dicts |-> add[2]]

(* A top-level class; the `->` subnodes that follow it are ParseSubnode.  *)
ParseNode(name, fl, code) ==
    /\ ReadDecl
    /\ LET s == ClassStep(name, fl, code)
       IN  IF s.err # "none" THEN Abort(s.err)
           ELSE /\ nodes' = s.nodes
                /\ nodeOrder' = s.order
                /\ fld' = s.fld
                /\ dicts' = s.dicts
                /\ arrow' = name
                /\ UNCHANGED <<phase, err, enumOrder, types, aggrOrder, aggrs, file>>

(* parse_subnode (lines 795-815): parse_node of the subnode, then the     *)
(* reciprocal links, and only then the check that the parent is not       *)
(* itself a subnode.                                                       *)
ParseSubnode(name, fl, code) ==
    /\ arrow # NoName
    /\ ReadDecl
    /\ LET s      == ClassStep(name, fl, code)
           linked == [s.nodes EXCEPT ![arrow].children = Append(@, name),
                                     ![name].parents   = Append(@, arrow)]
       IN  CASE s.err # "none"              -> Abort(s.err)
             [] linked[arrow].parents # <<>> -> Abort("Subnode_of_subnode")
             [] OTHER ->
                /\ nodes' = linked
                /\ nodeOrder' = s.order
                /\ fld' = s.fld
                /\ dicts' = s.dicts
                /\ UNCHANGED <<phase, err, arrow, enumOrder, types, aggrOrder,
                               aggrs, file>>

(* parse_enumeration (lines 852-886); the literals are not modelled.      *)
ParseEnum(name) ==
    /\ ReadDecl
    /\ LET e == CASE name \in DOMAIN nodes -> "Name_ad_node"
                  [] name \in DOMAIN types -> "Name_ad_ctype"
                  [] name \in EnumSet      -> "Name_ad_enum"
                  [] name \in DOMAIN aggrs -> "Name_ad_aggr"
                  [] OTHER                 -> "none"
       IN  IF e # "none" THEN Abort(e)
           ELSE /\ enumOrder' = Append(enumOrder, name)
                /\ arrow' = NoName
                /\ UNCHANGED <<phase, err, nodeOrder, nodes, types, aggrOrder,
                               aggrs, fld, dicts, file>>

(* parse_custom_type (lines 510-531): checked against enums, types and    *)
(* aggrs, not against nodes.                                              *)
ParseCustomType(t) ==
    /\ ReadDecl
    /\ LET e == CASE t.name \in EnumSet      -> "Name_ad_enum"
                  [] t.name \in DOMAIN types -> "CType_redefinition"
                  [] t.name \in DOMAIN aggrs -> "Name_ad_aggr"
                  [] OTHER                   -> "none"
       IN  IF e # "none" THEN Abort(e)
           ELSE /\ types' = (t.name :> t.spelling) @@ types
                /\ arrow' = NoName
                /\ UNCHANGED <<phase, err, nodeOrder, nodes, enumOrder,
                               aggrOrder, aggrs, fld, dicts, file>>

(* The loop over union_type in parse_union (lines 582-623).  Each variant *)
(* name is checked, then found among the union's variants or appended,    *)
(* and its new fields checked against its old ones.  In the braced form a *)
(* name repeated inside one declaration reaches Error.Name_ad_union_node,  *)
(* which the Error enum does not define: Python raises AttributeError.    *)
RECURSIVE UnionVariants(_, _, _, _)
UnionVariants(vdefs, st, multi, aggrNames) ==
    IF vdefs = <<>> \/ st.err # "none" THEN st
    ELSE LET v   == Head(vdefs)
             e   == CASE v.name \in EnumSet               -> "Name_ad_enum"
                      [] v.name \in DOMAIN types          -> "Name_ad_ctype"
                      [] v.name \in aggrNames             -> "Name_ad_aggr"
                      [] multi /\ v.name \in st.seen      -> "AttributeError"
                      [] OTHER                            -> "none"
             old == {j \in 1..Len(st.vs) : st.vs[j].name = v.name}
             k   == IF old = {} THEN Len(st.vs) + 1 ELSE CHOOSE j \in old : TRUE
             V   == IF old = {} THEN NewVariant(v.name) ELSE st.vs[k]
             add == AddFieldDefs(v.fields, st.F, st.D)
             vs2 == IF old = {} THEN Append(st.vs, V) ELSE st.vs
         IN  IF e # "none" THEN [st EXCEPT !.err = e]
             ELSE IF Redefines(V.fields, add[3], add[1])
             THEN [st EXCEPT !.err = "Field_redefined"]
             ELSE UnionVariants(Tail(vdefs),
                      [err  |-> "none",
                       vs   |-> [vs2 EXCEPT ![k].fields = @ \o add[3]],
                       F    |-> add[1], D |-> add[2],
                       seen |-> st.seen \cup {v.name}],
                      multi, aggrNames)

(* parse_union (lines 554-630): `union U { class A (...); ... };` or      *)
(* `union U A (...);`.  The union is created on first use and extended    *)
(* afterwards.                                                             *)
ParseUnion(u) ==
    /\ ReadDecl
    /\ LET e  == CASE u.name \in EnumSet      -> "Name_ad_enum"
                   [] u.name \in DOMAIN types -> "Name_ad_ctype"
                   [] u.name \in DOMAIN nodes -> "Name_ad_node"
                   [] OTHER                   -> "none"
           A  == IF u.name \in DOMAIN aggrs THEN aggrs[u.name] ELSE <<>>
           st == UnionVariants(u.variants,
                    [err |-> "none", vs |-> A, F |-> fld, D |-> dicts, seen |-> {}],
                    u.multi, DOMAIN aggrs \cup {u.name})
       IN  CASE e # "none"                -> Abort(e)
             [] st.err = "AttributeError" -> Crash(st.err)
                                             /\ UNCHANGED <<arrow, nodeOrder, nodes,
                                                  enumOrder, types, aggrOrder, aggrs,
                                                  fld, dicts, file>>
             [] st.err # "none"           -> Abort(st.err)
             [] OTHER ->
                /\ aggrs' = (u.name :> st.vs) @@ aggrs
                /\ aggrOrder' = IF u.name \in DOMAIN aggrs THEN aggrOrder
                                ELSE Append(aggrOrder, u.name)
                /\ fld' = st.F
                /\ dicts' = st.D
                /\ arrow' = NoName
                /\ UNCHANGED <<phase, err, nodeOrder, nodes, enumOrder, types, file>>

(* parse_include, the file-attribute form of                               *)
(* parse_file_attributes_or_node_attributes, and PUBLIC:/PRIVATE: blocks  *)
(* at file level (lines 495-552).  Their text is not modelled.            *)
ParseInclude ==
    /\ ReadDecl
    /\ file' = [file EXCEPT !.includes = @ + 1]
    /\ arrow' = NoName
    /\ UNCHANGED <<phase, err, nodeOrder, nodes, enumOrder, types, aggrOrder,
                   aggrs, fld, dicts>>

ParseFileAttributes(o) ==
    /\ ReadDecl
    /\ file' = [file EXCEPT !.options = @ \cup o]
    /\ arrow' = NoName
    /\ UNCHANGED <<phase, err, nodeOrder, nodes, enumOrder, types, aggrOrder,
                   aggrs, fld, dicts>>

ParseFileCode(vis) ==
    /\ ReadDecl
    /\ file' = [file EXCEPT ![vis] = @ + 1]
    /\ arrow' = NoName
    /\ UNCHANGED <<phase, err, nodeOrder, nodes, enumOrder, types, aggrOrder,
                   aggrs, fld, dicts>>

ParserInit ==
    /\ phase = "parse"
    /\ err = "none"
    /\ decls = 0
    /\ arrow = NoName
    /\ nodeOrder = <<>>
    /\ nodes = [n \in {} |-> NewNode]
    /\ enumOrder = <<>>
    /\ types = [n \in {} |-> ""]
    /\ aggrOrder = <<>>
    /\ aggrs = [n \in {} |-> <<>>]
    /\ fld = <<>>
    /\ dicts = <<>>
    /\ file = [includes |-> 0, options |-> {}, public |-> 0, private |-> 0]

(* One declaration of parse_declaration (lines 483-500).                  *)
ParseStep ==
    \/ \E n \in ClassNames, fl \in FieldLists, c \in NodeCode :
          \/ ParseNode(n, fl, c)
          \/ ParseSubnode(n, fl, c)
    \/ \E n \in EnumNames : ParseEnum(n)
    \/ \E t \in TypeDefs : ParseCustomType(t)
    \/ \E u \in UnionDefs : ParseUnion(u)
    \/ \E o \in OptionSets : ParseFileAttributes(o)
    \/ \E v \in FileCode : ParseFileCode(v)
    \/ IncludeAllowed /\ ParseInclude
=============================================================================
