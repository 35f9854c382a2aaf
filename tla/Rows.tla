-------------------------------- MODULE Rows --------------------------------
(***************************************************************************)
(* Fixed rows: SCHEMA, ROW and PROJECT (src/src/schema.cpp, store.cpp,     *)
(* projection.cpp).  A row is known by its size, a field by its place.     *)
(***************************************************************************)
EXTENDS Store

CONSTANTS
    FieldLists,    \* lists of fields commands define
    RowSizes,      \* sizes commands give rows and schemas
    RowLimit,      \* largest row (the code: 2^20 bytes)
    FieldLimit,    \* most fields of a schema (the code: 128)
    Word           \* first number an unsigned int does not hold (2^32)

\* A field: its name, and its place as two unsigned ints.
FieldType == [name : Seq(Nat), offset : 0..(Word - 1), width : 0..(Word - 1)]

ASSUME RowConstants ==
    /\ \A fields \in FieldLists : fields \in Seq(FieldType)
    /\ RowSizes \subseteq Nat
    /\ RowLimit \in Nat
    /\ FieldLimit \in Nat
    /\ Word \in Nat \ {0}

VARIABLES
    schema,        \* Store.schema
    row,           \* Store.row: its size, 0 for none
    redefined      \* history: a SCHEMA came after the ROW

rowVars == <<schema, row, redefined>>

RowInit ==
    /\ schema = [row_size |-> 0, fields |-> <<>>, verified |-> FALSE]
    /\ row = 0
    /\ redefined = FALSE

\* The numbers project_row indexes the row with, sums of unsigned ints.
Touched(field) == {(field.offset + i) % Word : i \in 0..(field.width - 1)}

-----------------------------------------------------------------------------
(* SCHEMA row_size fields *)

\* Mutant: the end of the field is not checked.
FieldBegins(field, size) ==
    /\ field.name # <<>>
    /\ field.width # 0
    /\ field.offset <= size

\* The check of the end is made on a sum of unsigned ints.
FieldFits(field, size) ==
    /\ field.name # <<>>
    /\ field.width # 0
    /\ field.offset <= size
    /\ (field.offset + field.width) % Word <= size

SchemaCheck(size, fields) ==
    IF size \notin 1..RowLimit \/ Len(fields) \notin 1..FieldLimit THEN "limit"
    ELSE IF \E i \in DOMAIN fields : ~FieldFits(fields[i], size)
         THEN "malformed" ELSE "ok"

\* std::sort by offset; the order of equal offsets does not show here.
FieldBefore(left, right) == left.offset < right.offset

DefineSchema(size, fields) ==
    /\ status' = SchemaCheck(size, fields)
    /\ IF status' = "ok"
       THEN /\ schema' = [row_size |-> size, verified |-> TRUE,
                          fields |-> Sorted(fields, FieldBefore)]
            /\ redefined' = (row # 0)
       ELSE UNCHANGED <<schema, redefined>>
    /\ UNCHANGED row

-----------------------------------------------------------------------------
(* ROW bytes *)

RowCheck(size) ==
    IF ~schema.verified THEN "invalid_state"
    ELSE IF size # schema.row_size THEN "malformed" ELSE "ok"

InstallRow(size) ==
    /\ status' = RowCheck(size)
    /\ IF status' = "ok"
       THEN row' = size /\ redefined' = FALSE
       ELSE UNCHANGED <<row, redefined>>
    /\ UNCHANGED schema

-----------------------------------------------------------------------------
(* PROJECT: reads the bytes of every field of the schema there is now. *)

InRow(field) == Touched(field) \subseteq 0..(row - 1)

ProjectRow ==
    /\ IF ~schema.verified \/ row = 0 THEN status' = "invalid_state"
       ELSE status' \in ReadOutcome(\A i \in DOMAIN schema.fields :
                                       InRow(schema.fields[i]))
    /\ UNCHANGED rowVars

-----------------------------------------------------------------------------
RowNext ==
    \/ \E size \in RowSizes, fields \in FieldLists : DefineSchema(size, fields)
    \/ \E size \in RowSizes : InstallRow(size)
    \/ ProjectRow

(* A projection reads beyond the row only where the code lets two things    *)
(* come together that were checked apart: a schema that came after the row, *)
(* or a field whose end the 32-bit sum hides.  In any other order of SCHEMA *)
(* and ROW, each field lies in the row.                                     *)
FieldsInRow ==
    \/ redefined
    \/ \E i \in DOMAIN schema.fields :
          schema.fields[i].offset + schema.fields[i].width >= Word
    \/ row = 0
    \/ \A i \in DOMAIN schema.fields : InRow(schema.fields[i])
=============================================================================
