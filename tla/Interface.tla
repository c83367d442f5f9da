----------------------------- MODULE Interface -----------------------------
(***************************************************************************)
(* Package interfaces in sui-move-codegen: how the metadata of a published *)
(* package becomes a NormalizedPackage (source.rs, ir.rs), how its         *)
(* addresses are rewritten, and how the renderer finds the Rust path of a  *)
(* datatype and whether it is an object (render/types.rs, calls.rs,        *)
(* mod.rs).  An address stands for its canonical spelling, a name for a    *)
(* module and a datatype of it.                                            *)
(***************************************************************************)
EXTENDS ParameterNames

CONSTANTS Packages,    \* package lineages: a package and its upgrades
          Names,       \* datatypes, by module and name; packages may share them
          Versions,    \* Versions[p]: the most versions of p, a bound
          Functions,   \* the functions in the order of the rendered modules
          Signature,   \* Signature[f]: the package and the parameter types of f
          Roots,       \* Rust paths given for external packages
          Own,         \* the Rust path of the package being rendered
          None         \* Option::None

Id == [package : Packages, name : Names]
Address == UNION {[package : {p}, version : 1..Versions[p]] : p \in Packages}
TypeName(address, name) == [address |-> address, name |-> name]

\* Types of fields and parameters, as far as rendering tells them apart.
Scalar == [type |-> "Scalar"]
Vector == [type |-> "Vector"]
TxContext == [type |-> "TxContext"]
DatatypeRef(id, mutable) == [type |-> "Datatype", id |-> id, mutable |-> mutable]

FieldType == {Scalar, Vector} \cup {DatatypeRef(id, FALSE) : id \in Id}
SourceType == {Scalar, Vector, TxContext} \cup {DatatypeRef(id, m) : id \in Id, m \in BOOLEAN}

\* What a Move source says of a datatype, and the version of its package that added it.
Definition == [origin : Nat \ {0}, key : BOOLEAN, copy : BOOLEAN, generic : BOOLEAN,
               fields : SUBSET FieldType]

ASSUME InterfaceAssumption ==
  /\ Versions \in [Packages -> Nat]
  /\ Functions \in Seq(DOMAIN Signature)
  /\ \A f \in DOMAIN Signature :
       /\ Signature[f].package \in Packages
       /\ Signature[f].parameters \in Seq(SourceType)
       /\ Len(Signature[f].parameters) <= Len(ArgWord)
  /\ Own \notin Roots \cup {None} /\ None \notin Roots

-----------------------------------------------------------------------------
(* The interface of one version of a package (ir.rs) *)

TypeNames == [address : Address, name : Names]

TypeRef == {Scalar, Vector, TxContext} \cup
           [type : {"Datatype"}, mutable : BOOLEAN, type_name : TypeNames]

FunctionParam == [name : Name, ty : TypeRef]

Datatype == [type_name : TypeNames, key : BOOLEAN, copy : BOOLEAN, generic : BOOLEAN,
             fields : SUBSET TypeRef]

\* The modules are flattened into one map of datatypes and one of functions.
NormalizedPackage ==
  [storage_id  : Address,
   original_id : Address,
   datatypes   : UNION {[present -> Datatype] : present \in SUBSET Names},
   functions   : UNION {[callable -> Seq(FunctionParam)] : callable \in SUBSET DOMAIN Signature}]

ASSUME NoneIsNoValue == None \notin Definition /\ None \notin NormalizedPackage

-----------------------------------------------------------------------------
(* fetch_package *)

\* The network names a datatype by the version of its package that added it.
DefiningName(id, defs) ==
  TypeName([package |-> id.package, version |-> defs[id].origin], id.name)

normalize_type(type, defs) ==
  IF type.type = "Datatype"
    THEN [type |-> "Datatype", mutable |-> type.mutable, type_name |-> DefiningName(type.id, defs)]
    ELSE type

normalize_datatype(id, defs) ==
  [type_name |-> DefiningName(id, defs), key |-> defs[id].key, copy |-> defs[id].copy,
   generic |-> defs[id].generic, fields |-> {normalize_type(t, defs) : t \in defs[id].fields}]

normalize_function(f, defs) ==
  [i \in DOMAIN Signature[f].parameters |->
     [name |-> Arg(i), ty |-> normalize_type(Signature[f].parameters[i], defs)]]

\* Version v of package p, with the datatypes and functions it has.
normalize_package(p, v, defs, since) ==
  LET Has(origin) == origin \in 1..v
      Present == {n \in Names : LET def == defs[[package |-> p, name |-> n]] IN
                                def # None /\ Has(def.origin)}
      Callable == {f \in DOMAIN Signature : Signature[f].package = p /\ Has(since[f])} IN
  [storage_id  |-> [package |-> p, version |-> v],
   original_id |-> [package |-> p, version |-> 1],
   datatypes   |-> [n \in Present |-> normalize_datatype([package |-> p, name |-> n], defs)],
   functions   |-> [f \in Callable |-> normalize_function(f, defs)]]

-----------------------------------------------------------------------------
(* replace_addresses *)

replace_address(address, replacements) ==
  IF address \in DOMAIN replacements THEN replacements[address] ELSE address

ReplacedName(t, replacements) == [t EXCEPT !.address = replace_address(@, replacements)]

ReplacedType(ty, replacements) ==
  IF ty.type = "Datatype" THEN [ty EXCEPT !.type_name = ReplacedName(@, replacements)] ELSE ty

ReplacedDatatype(dt, replacements) ==
  [dt EXCEPT !.type_name = ReplacedName(@, replacements),
             !.fields = {ReplacedType(t, replacements) : t \in @}]

ReplacedParameters(parameters, replacements) ==
  [i \in DOMAIN parameters |-> [parameters[i] EXCEPT !.ty = ReplacedType(@, replacements)]]

\* Mutant of Replaced: references are rewritten, the names datatypes are defined by are not.
ReplacedReferences(package, replacements) ==
  [package EXCEPT
     !.storage_id = replace_address(@, replacements),
     !.original_id = replace_address(@, replacements),
     !.functions = [f \in DOMAIN @ |-> ReplacedParameters(@[f], replacements)]]

Replaced(package, replacements) ==
  [package EXCEPT
     !.storage_id = replace_address(@, replacements),
     !.original_id = replace_address(@, replacements),
     !.datatypes = [n \in DOMAIN @ |-> ReplacedDatatype(@[n], replacements)],
     !.functions = [f \in DOMAIN @ |-> ReplacedParameters(@[f], replacements)]]

-----------------------------------------------------------------------------
(* Names in the renderer *)

is_local_type(t, package) == t.address \in {package.storage_id, package.original_id}

\* local_type_key: both addresses of the package are one.
local_type_key(t, package) ==
  IF is_local_type(t, package) THEN [t EXCEPT !.address = package.storage_id] ELSE t

\* Mutant of external_type_names: the name reported by the metadata is not among them.
StorageAndOriginalNames(dt, package) ==
  {[dt.type_name EXCEPT !.address = a] : a \in {package.storage_id, package.original_id}}

external_type_names(dt, package) ==
  {dt.type_name} \cup
  {[dt.type_name EXCEPT !.address = a] : a \in {package.storage_id, package.original_id}}

\* RenderOptions::add_external_package; a name that is there already is replaced.
add_external_package(external, package, root) ==
  LET added == UNION {external_type_names(package.datatypes[n], package) :
                        n \in DOMAIN package.datatypes} IN
  [t \in DOMAIN external \cup added |->
     IF t \in added THEN [root |-> root, key |-> package.datatypes[t.name].key] ELSE external[t]]

\* render_type_ref: under which path a datatype is found, None for a compile error.
PathRoot(ty, package, external) ==
  IF ty.type # "Datatype" \/ is_local_type(ty.type_name, package) THEN Own
  ELSE IF ty.type_name \in DOMAIN external THEN external[ty.type_name].root
  ELSE None

\* Only the reported name of a datatype of the package is compared.
is_object_type(ty, package, external) ==
  /\ ty.type = "Datatype"
  /\ IF ty.type_name \in DOMAIN external THEN external[ty.type_name].key
     ELSE /\ ty.type_name.name \in DOMAIN package.datatypes
          /\ package.datatypes[ty.type_name.name].type_name = ty.type_name
          /\ package.datatypes[ty.type_name.name].key

-----------------------------------------------------------------------------
(* Copy in Rust *)

type_has_rust_copy_shape(ty, package, copies) ==
  \/ ty.type = "Scalar"
  \/ /\ ty.type = "Datatype"
     /\ is_local_type(ty.type_name, package)
     /\ local_type_key(ty.type_name, package) \in copies

datatype_has_rust_copy_shape(dt, package, copies) ==
  /\ dt.copy /\ ~dt.generic
  /\ \A ty \in dt.fields : type_has_rust_copy_shape(ty, package, copies)
=============================================================================
