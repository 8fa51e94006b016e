------------------------ MODULE ConfigurationParser ------------------------
(***************************************************************************)
(* ConfigurationParser (src/configurationparser.cpp).  A line is the       *)
(* sequence of its words, which is all that operator>> sees of it, and     *)
(* configData a function from the keys found so far to their values.       *)
(***************************************************************************)
EXTENDS Naturals, Sequences

CONSTANTS
    Files,        \* the readable files, each a sequence of lines
    CommentWords  \* words that begin with '#'

ASSUME FilesAssumption == \A name \in DOMAIN Files : Files[name] \in Seq(Seq(STRING))

NoConfig == [key \in {} |-> key]

CanOpen(name) == name \in DOMAIN Files

HasKey(configData, key) == key \in DOMAIN configData

(* get() throws if there is no such key. *)
Get(configData, key) == configData[key]

(* Empty lines and lines of white space have no word; a key without value  *)
(* is discarded with a warning.  operator>> takes the first word behind    *)
(* the key; trimming it changes nothing, as it has no white space.         *)
Discarded(line) ==
    \/ line = <<>>
    \/ line[1] \in CommentWords
    \/ Len(line) < 2

ParseLine_KeepsFirst(configData, line) ==
    IF Discarded(line) \/ line[1] \in DOMAIN configData
    THEN configData
    ELSE [k \in DOMAIN configData \cup {line[1]} |->
             IF k = line[1] THEN line[2] ELSE configData[k]]

ParseLine(configData, line) ==
    IF Discarded(line)
    THEN configData
    ELSE [k \in DOMAIN configData \cup {line[1]} |->
             IF k = line[1] THEN line[2] ELSE configData[k]]

----------------------------------------------------------------------------
(* The meaning of a file, without reading it line by line: "the first word *)
(* is the key, followed by a whitespace, and the rest of the line is the   *)
(* value" (NHA_DS.md).  The rest of a line is the sequence of its words.   *)

Defining(file, key) ==
    {i \in DOMAIN file : ~Discarded(file[i]) /\ file[i][1] = key}

Meaning(file) ==
    [key \in {file[i][1] : i \in {j \in DOMAIN file : ~Discarded(file[j])}} |->
        LET last == CHOOSE i \in Defining(file, key) :
                        \A j \in Defining(file, key) : j <= i
        IN Tail(file[last])]

FirstWords(values) == [key \in DOMAIN values |-> Head(values[key])]
============================================================================
