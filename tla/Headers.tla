------------------------------ MODULE Headers ------------------------------
(***************************************************************************)
(* The headers of an event message on the wire: events/headers.rs and the  *)
(* properties of events/mod.rs.  A message may come from anyone, so what   *)
(* parses must be what somebody wrote.                                     *)
(* A byte is a digit below Base, a u32 has TagLen and a u64 WordLen bytes. *)
(***************************************************************************)
EXTENDS Naturals, Sequences, SequencesExt

CONSTANTS
  Base,       \* the values of a byte
  TagLen,     \* the bytes of a u32
  WordLen,    \* the bytes of a u64
  Samples     \* the numbers written: the boundaries of both widths

ASSUME HeadersAssumption ==
  /\ Base \in Nat /\ Base >= 7 /\ TagLen \in Nat \ {0} /\ WordLen \in Nat \ {0}
  /\ Samples \subseteq Nat

Byte == 0 .. Base - 1

\* What is left of n after each byte of a word that is taken from it: n shifted.
Shifted(n, length) ==
  LET rest[i \in 0 .. length] == IF i = 0 THEN n ELSE rest[i - 1] \div Base
  IN  rest

\* n is a number of that many bytes.
Fits(n, length) == Shifted(n, length)[length] = 0

\* to_le_bytes and from_le_bytes.
LittleEndian(n, length) == [i \in 1 .. length |-> Shifted(n, length)[i - 1] % Base]

Number(bytes) ==
  LET last[i \in 0 .. Len(bytes)] ==  \* the number in the last i bytes
        IF i = 0 THEN 0 ELSE bytes[Len(bytes) - i + 1] + Base * last[i - 1]
  IN  last[Len(bytes)]

Orderings == {1, 2, 4, 6}      \* EventAtomicOrdering as u8
Associativities == 0 .. 4      \* EventAssociativity as u8

VERSION == 1
NoRetry == [failed |-> {}]
RetryAt(ms) == [failed |-> {ms}]

Properties == [ordering : Orderings, associativity : Associativities]

IntoBytes(p) == <<VERSION, p.ordering, p.associativity>>

RetryBytes(ms) == <<VERSION>> \o LittleEndian(ms, WordLen)

\* EventHeaders::to_map.
ToMap(h, retry) ==
  LET names == {"tag", "key", "props"} \cup (IF retry = NoRetry THEN {} ELSE {"retry"})
  IN [name \in names |->
        CASE name = "tag" -> LittleEndian(h.tag, TagLen)
          [] name = "key" -> LittleEndian(h.key, WordLen)
          [] name = "props" -> IntoBytes(h.properties)
          [] name = "retry" -> RetryBytes(CHOOSE ms \in retry.failed : TRUE)]

Error(kind) == [error |-> kind]
Value(v) == [value |-> v]
IsError(r) == "error" \in DOMAIN r

\* Mutant: the version is not looked at.
ParsePropertiesUnversioned(bytes) ==
  IF Len(bytes) = 3 /\ bytes[2] \in Orderings /\ bytes[3] \in Associativities
    THEN Value([ordering |-> bytes[2], associativity |-> bytes[3]])
    ELSE Error("BadProperties")

\* EventAlgebraicProperties::parse.
ParseProperties(bytes) ==
  IF Len(bytes) # 3 THEN Error("BadProperties")
  ELSE IF bytes[1] # VERSION THEN Error("UnknownPropertiesVersion")
  ELSE IF bytes[2] \in Orderings /\ bytes[3] \in Associativities
    THEN Value([ordering |-> bytes[2], associativity |-> bytes[3]])
    ELSE Error("BadProperties")

\* RetryProperties::parse.
ParseRetry(bytes) ==
  IF Len(bytes) # WordLen + 1 THEN Error("BadHeader")
  ELSE IF bytes[1] # VERSION THEN Error("UnknownRetryVersion")
  ELSE Value(RetryAt(Number(Tail(bytes))))

\* EventHeaders::parse: the first thing wrong is the error.
Parse(map) ==
  LET has(name) == name \in DOMAIN map
      properties == ParseProperties(map["props"])
      retry == IF has("retry") THEN ParseRetry(map["retry"]) ELSE Value(NoRetry)
  IN IF ~ has("tag") THEN Error("MissingHeader")
     ELSE IF Len(map["tag"]) # TagLen THEN Error("BadHeader")
     ELSE IF ~ has("key") THEN Error("MissingHeader")
     ELSE IF Len(map["key"]) # WordLen THEN Error("BadHeader")
     ELSE IF ~ has("props") THEN Error("MissingHeader")
     ELSE IF IsError(properties) THEN properties
     ELSE IF IsError(retry) THEN retry
     ELSE Value([headers |-> [tag |-> Number(map["tag"]), key |-> Number(map["key"]),
                              properties |-> properties.value],
                 retry |-> retry.value])

-----------------------------------------------------------------------------
VARIABLES
  written,  \* what the headers of a message say, as its writer had them
  carried,  \* the header map of the message
  intact    \* nobody wrote other headers

headersVars == <<written, carried, intact>>

HeadersInit ==
  /\ written \in [headers : [tag : {n \in Samples : Fits(n, TagLen)},
                             key : {n \in Samples : Fits(n, WordLen)},
                             properties : Properties],
                  retry : {NoRetry} \cup
                          {RetryAt(ms) : ms \in {n \in Samples : Fits(n, WordLen)}}]
  /\ carried = ToMap(written.headers, written.retry)
  /\ intact = TRUE

\* The writer is another program, or another version of this one: a header is
\* missing, has another length or another byte in it.
Differ ==
  /\ intact
  /\ \E name \in DOMAIN carried :
       \/ carried' = [n \in DOMAIN carried \ {name} |-> carried[n]]
       \/ carried' = [carried EXCEPT ![name] = Front(@)]
       \/ carried' = [carried EXCEPT ![name] = Append(@, 0)]
       \/ \E i \in DOMAIN carried[name], byte \in Byte :
            carried' = [carried EXCEPT ![name][i] = byte]
  /\ intact' = FALSE
  /\ UNCHANGED written

HeadersSpec == HeadersInit /\ [][Differ]_headersVars

\* The consumer parses what the publisher and the retry encoder wrote, fields
\* and all: no value of the widths is lost or exchanged with another.
HeadersRoundTrip == intact => Parse(carried) = Value(written)

\* Of a message from anywhere, either the parse fails (and the record is
\* skipped) or writing what was parsed gives the same message: no two readings
\* of a message, none of a version or a value this code does not know.
ParseIsExact ==
  LET parsed == Parse(carried)
  IN ~ IsError(parsed) => ToMap(parsed.value.headers, parsed.value.retry) = carried

\* Both: parsing is the inverse of writing.
HeadersExact == HeadersRoundTrip /\ ParseIsExact
=============================================================================
