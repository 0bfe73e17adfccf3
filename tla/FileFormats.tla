---------------------------- MODULE FileFormats ----------------------------
(***************************************************************************)
(* The file formats of the S3 and URI connectors: how a format is chosen,  *)
(* what the bytes of a file are, and what the format readers infer from    *)
(* them.  The arrow-csv and arrow-json crates are external; what they      *)
(* infer and accept is in InferType and FileArrayOf.                       *)
(*                                                                         *)
(* The bytes of a row are two pieces, its body and its end: an end of line *)
(* of CSV, the closing brace of a JSON line.  A read may stop between them *)
(* as anywhere else.  A value of the kind "lines" is a text that contains  *)
(* a line break, which CSV quotes and JSON escapes.                        *)
(***************************************************************************)
EXTENDS ColumnTypes, FiniteSets, FiniteSetsExt

(***************************************************************************)
(* FileFormat.  A format that is named wins, over a Content-Type that is   *)
(* known, over the extension of the path.  No format is {}.                *)
(***************************************************************************)
from_format_str(name) ==
    CASE name \in {"parquet", "csv", "json"} -> {name}
      [] name \in {"jsonl", "ndjson", "jsonlines"} -> {"jsonl"}
      [] OTHER -> {}

FormatOf(extension, hint) == from_format_str(IF hint = {} THEN extension ELSE CHOOSE h \in hint : TRUE)

from_content_type(type) ==
    CASE type.suffix = "json" -> {"json"}
      [] type.top = "text" /\ type.sub = "csv" -> {"csv"}
      [] type.top = "application" /\ type.sub = "json" -> {"json"}
      [] type.top = "application"
            /\ type.sub \in {"x-ndjson", "ndjson", "jsonl", "jsonlines", "x-jsonlines"} -> {"jsonl"}
      [] type.top = "application" /\ type.sub \in {"vnd.apache.parquet", "x-parquet"} -> {"parquet"}
      [] OTHER -> {}

(***************************************************************************)
(* The bytes of a file.  A CSV file begins with the names of its columns,  *)
(* and its last line may lack the end of line.                             *)
(***************************************************************************)
Bytes(format, table) ==
    LET header == [id |-> 0, fields |-> [i \in DOMAIN table.cols |-> <<table.cols[i].name, Null>>]]
        lines == IF format = "csv" THEN <<header>> \o table.rows ELSE table.rows
        bytes == [i \in 1 .. 2 * Len(lines) |-> [row |-> lines[(i + 1) \div 2], end |-> i % 2 = 0]]
    IN  IF format = "csv" /\ ~ table.newline THEN SubSeq(bytes, 1, Len(bytes) - 1) ELSE bytes

\* The rows whose bodies are among some bytes that begin with a row.
RowsIn(bytes) == [i \in 1 .. (Len(bytes) + 1) \div 2 |-> bytes[2 * i - 1].row]

\* The fields of a row of CSV in which there is a line break.
LineBreaks(row) == {i \in DOMAIN row.fields : row.fields[i][2].k = "lines"}

\* read_sample: what is read until the limit, cut after the last line break
\* if the limit was reached, be that the end of a line or within a field.
read_sampleUncut(format, bytes, read, limit) == SubSeq(bytes, 1, read)
read_sample(format, bytes, read, limit) ==
    LET breaks == {i \in 1 .. read : bytes[i].end \/ (format = "csv" /\ LineBreaks(bytes[i].row) # {})}
    IN  SubSeq(bytes, 1, IF read >= limit /\ breaks # {} THEN Max(breaks) ELSE read)

\* A row that was cut within a field other than its last has too few fields.
CutShort(piece) ==
    LET breaks == LineBreaks(piece.row)
    IN  ~ piece.end /\ breaks # {} /\ Max(breaks) < Len(piece.row.fields)

(***************************************************************************)
(* External.  The narrowest type that fits all values: integers and floats *)
(* together are floats, anything else together is text, no value at all is *)
(* the Null type.  A decoder parses every value as the announced type;     *)
(* text takes anything.  For the Null type, CSV drops the value and JSON   *)
(* refuses it.                                                             *)
(***************************************************************************)
InferType(values) ==
    LET kinds == {values[i].k : i \in DOMAIN values} \ {"null"}
    IN  CASE kinds = {} -> "Null"
          [] kinds = {"int"} -> "Int64"
          [] kinds # {} /\ kinds # {"int"} /\ kinds \subseteq {"int", "float"} -> "Float64"
          [] kinds = {"bool"} -> "Boolean"
          [] OTHER -> "Utf8"

FileArrayOf(format, type, values) ==
    LET takes == [Int64 |-> {"int"}, Boolean |-> {"bool"}]
        cell(v) ==
            IF v.k = "null" THEN Null
            ELSE IF type = "Null" THEN IF format = "csv" THEN Null ELSE Failed
            ELSE IF type = "Float64" THEN IF v.k \in {"int", "float"} THEN as_float(type, v) ELSE Failed
            ELSE IF type \in DOMAIN takes THEN IF v.k \in takes[type] THEN v ELSE Failed
            ELSE Text(v)
    IN  [type |-> type, cells |-> [i \in DOMAIN values |-> cell(values[i])]]

\* Columns by position, named by the header of the file.
read_csv_schema(bytes) ==
    LET header == bytes[1].row.fields
        rows == Tail(RowsIn(bytes))
    IN  [i \in DOMAIN header |->
            [name |-> header[i][1],
             type |-> InferType([r \in DOMAIN rows |-> rows[r].fields[i][2]])]]

\* Columns by name, in the order in which they first appear.
InferJson(rows) ==
    LET names == FlattenSeq([r \in DOMAIN rows |-> [i \in DOMAIN rows[r].fields |-> rows[r].fields[i][1]]])
        distinct == FirstPlaces(names)
    IN  [k \in DOMAIN distinct |->
            LET name == names[distinct[k]]
            IN  [name |-> name, type |-> InferType([r \in DOMAIN rows |-> Field(rows[r], name)])]]
=============================================================================
