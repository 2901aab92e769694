-------------------------------- MODULE Atoms --------------------------------
(***************************************************************************)
(* The tier of one field = value criterion of a Sigma rule:                *)
(* fragility.classify_atom with the registries it asks (field_semantics,   *)
(* protected_literals, refdata).                                           *)
(*                                                                         *)
(* The registries and patterns are data: FieldTable says what they hold    *)
(* about each field name the rules use, ValueTable which patterns and word *)
(* lists each value matches.  A bare keyword is a value of the field "".   *)
(***************************************************************************)
EXTENDS Tiers

CONSTANTS
    FieldTable,     \* field name -> its traits
    ValueTable      \* value -> its traits

Roles == {"BINARY_IDENTITY", "ATTACKER_AUTHORED_TEXT", "FUNCTIONAL_CONSTRAINT",
          "DATA_SOURCE_SELECTOR", "GENERIC"}
Marks == {
    "string",       \* the value is a string, and not empty
    "null",         \* the value is null
    "protected",    \* it matches a category of PROTECTED_VALUE_CATEGORIES
    "cloud",        \* it matches CLOUD_AUDIT_CONTEXT_RE
    "ioc",          \* a hash or an address
    "cmdlet",       \* it matches _CMDLET_RE
    "exe",          \* it matches _EXE_RE
    "known",        \* its basename is in the tool vocabulary
    "short",        \* its basename has fewer than three characters
    "executable" }  \* a path, or a known executable extension

Fields == DOMAIN FieldTable
Values == DOMAIN ValueTable

FieldTraits == [
    role     : Roles,                           \* field_role
    identity : {"metadata", "path", "none"},    \* of structural_detectors
    always   : BOOLEAN,             \* in ALWAYS_PROTECTED_FIELD_NAMES
    action   : BOOLEAN ]            \* in CLOUD_AUDIT_ACTION_FIELD_SUFFIXES
ValueTraits == [
    marks    : SUBSET Marks,
    basename : STRING ]             \* of structural_detectors._basename_token

ASSUME AtomsAssumption ==
    /\ \A f \in Fields : FieldTable[f] \in FieldTraits
    /\ \A v \in Values : /\ ValueTable[v].marks \in SUBSET Marks
                         /\ ValueTable[v].basename \in STRING

FieldRole(f) == FieldTable[f].role
Has(v, mark) == mark \in ValueTable[v].marks

-----------------------------------------------------------------------------
\* rule_is_cloud_audit_context: one marked criterion marks the whole rule.
IsCloudAuditContext(leaves) == \E l \in leaves : Has(l.value, "cloud")

\* is_protected.
IsProtected(f, v, cloudContext) ==
    \/ FieldTable[f].always
    \/ Has(v, "protected")
    \/ cloudContext /\ FieldTable[f].action

\* _is_eventid_or_syscall_field.
IsDataSourceSelector(f) == FieldRole(f) = "DATA_SOURCE_SELECTOR"

\* _tool_shaped_ignoring_field_context.
ToolShaped(v) ==
    Has(v, "string") /\ (Has(v, "cmdlet") \/ Has(v, "exe") \/ Has(v, "known"))

\* is_tool_value: the word list is asked only of fields that name a program,
\* and a short word counts only where it looks like one.
IsToolValue(v, f) ==
    /\ Has(v, "string")
    /\ FieldRole(f) # "ATTACKER_AUTHORED_TEXT"
    /\ \/ /\ FieldRole(f) = "BINARY_IDENTITY"
          /\ Has(v, "known")
          /\ Has(v, "short") => Has(v, "executable")
       \/ Has(v, "cmdlet")
       \/ Has(v, "exe")

\* classify_atom: the first of these that applies.
ClassifyAtom(f, v, cloudContext) ==
    CASE IsProtected(f, v, cloudContext) -> "TTP"
      [] ~IsProtected(f, v, cloudContext) /\ IsDataSourceSelector(f) ->
            "Artifact"
      [] OTHER ->
            IF Has(v, "string") /\ Has(v, "ioc") THEN "IOC"
            ELSE IF FieldRole(f) = "FUNCTIONAL_CONSTRAINT" THEN "TTP"
            ELSE IF /\ FieldRole(f) = "ATTACKER_AUTHORED_TEXT"
                    /\ ToolShaped(v) THEN "Artifact"
            ELSE IF IsToolValue(v, f) THEN "Tool"
            ELSE "Artifact"
=============================================================================
