----------------------------- MODULE IpcRequest -----------------------------
(***************************************************************************)
(* What travels on the management socket: the JSON text that Go marshals   *)
(* from an IpcRequest (main.go), the part of it that one read() returns,   *)
(* and the values the extract_json_* functions of ipc_server.cpp find in   *)
(* it by searching for quoted keys.                                        *)
(*                                                                         *)
(* The text is a sequence of tokens: quoted strings, numbers and the two   *)
(* brackets.  A token that is cut in two counts as missing: a string       *)
(* without its closing quote is not extracted, a key without it not found. *)
(* No string contains a quote or a bracket.                                *)
(***************************************************************************)
EXTENDS Integers, Sequences

CONSTANT MaxRead   \* tokens one read() returns (sizeof(buf) - 1 bytes)

\* Command and generation stand in the first bytes and are never cut.
ASSUME MaxReadAssumption == MaxRead \in Nat /\ MaxRead >= 4

Str(s) == [kind |-> "string", value |-> s]
Num(n) == [kind |-> "number", value |-> n]
Open   == [kind |-> "open",   value |-> ""]
Close  == [kind |-> "close",  value |-> ""]

Strings(list) == [i \in DOMAIN list |-> Str(list[i])]
Field(key, value) == <<Str(key), value>>

\* Empty fields are left out (omitempty).
ListField(key, list) ==
    IF list = <<>> THEN <<>>
    ELSE <<Str(key), Open>> \o Strings(list) \o <<Close>>

StatusWire == Field("command", Str("GET_STATUS"))

\* The fields in the order of the struct.  The generation and the version
\* hash were validated, so they are never left out.
PolicyWire(policy) ==
    Field("command", Str("APPLY_POLICY"))
        \o Field("generation", Num(policy.generation))
        \o Field("version_hash", Str(policy.version_hash))
        \o ListField("suffix_blocks", policy.suffix_blocks)
        \o ListField("exact_blocks", policy.exact_blocks)
        \o ListField("allowlist", policy.allowlist)

Received(wire) == SubSeq(wire, 1, IF Len(wire) < MaxRead THEN Len(wire) ELSE MaxRead)

-----------------------------------------------------------------------------
\* The first of some places, as a set: empty when there is none.
First(places) == {i \in places : \A j \in places : i <= j}

\* Where a quoted key is found: any string spelled like it counts.
KeyAt(json, key) ==
    First({i \in DOMAIN json : json[i].kind = "string" /\ json[i].value = key})

Behind(json, i, kind) == First({j \in DOMAIN json : j > i /\ json[j].kind = kind})

\* The value behind the key, or the default if there is no such key or value.
Extract(json, key, kind, default) ==
    LET found == UNION {Behind(json, k, kind) : k \in KeyAt(json, key)}
    IN  IF found = {} THEN default ELSE json[CHOOSE i \in found : TRUE].value

ExtractString(json, key) == Extract(json, key, "string", "")
ExtractUint64(json, key) == Extract(json, key, "number", 0)

StringsBetween(json, first, last) ==
    {json[i].value : i \in {j \in first..last : json[j].kind = "string"}}

\* Fault: a list without its closing bracket is taken as far as it goes.
ExtractStringsToEnd(json, key) ==
    UNION {UNION {StringsBetween(json, open,
                        IF Behind(json, open, "close") = {} THEN Len(json)
                        ELSE CHOOSE i \in Behind(json, open, "close") : TRUE) :
               open \in Behind(json, k, "open")} : k \in KeyAt(json, key)}

\* The strings between the brackets behind the key, as a set: they fill sets
\* and a trie.  Without a key, or without a bracket behind it, there are none.
ExtractStrings(json, key) ==
    UNION {UNION {UNION {StringsBetween(json, open, close) :
               close \in Behind(json, open, "close")} :
               open \in Behind(json, k, "open")} : k \in KeyAt(json, key)}

\* The candidate of an APPLY_POLICY request.
Candidate(json) ==
    [generation    |-> ExtractUint64(json, "generation"),
     version_hash  |-> ExtractString(json, "version_hash"),
     suffix_blocks |-> ExtractStrings(json, "suffix_blocks"),
     exact_blocks  |-> ExtractStrings(json, "exact_blocks"),
     allowlist     |-> ExtractStrings(json, "allowlist")]

=============================================================================
