----------------------------- MODULE IngestKey ------------------------------
(***************************************************************************)
(* loadOrCreateIngestKey: a console that starts reads the key of its data  *)
(* directory, or makes one and writes it there, and serves with that key   *)
(* until it stops.  Checking, reading, opening and writing the file are    *)
(* system calls of their own; the file is shared by every console started  *)
(* on the directory, and a console may stop between two of them.           *)
(*                                                                         *)
(* Keys are numbered in the order randomBytes returns them; 0 is the empty *)
(* key, which an agent's config may not hold (load_config_from_disk).      *)
(***************************************************************************)
EXTENDS Naturals, FiniteSets

CONSTANTS
  Console,     \* consoles started on the data directory
  MaxKeys      \* bound: keys ever generated

ASSUME IngestKeyAssumption == IsFiniteSet(Console) /\ MaxKeys \in Nat

VARIABLES
  present,    \* ingest.key exists
  content,    \* what is in it
  generated,  \* how many keys have been generated
  pc,         \* where each console is
  key,        \* each console's INGEST_KEY
  served      \* every key a console has printed and served with

vars == <<present, content, generated, pc, key, served>>

TypeOK ==
  /\ present \in BOOLEAN /\ generated \in 0..MaxKeys /\ content \in 0..generated
  /\ pc \in [Console -> {"down", "exists", "read", "generate", "open", "write", "serving"}]
  /\ key \in [Console -> 0..generated]
  /\ served \subseteq 0..generated

Init ==
  /\ present = FALSE /\ content = 0 /\ generated = 0
  /\ pc = [c \in Console |-> "down"] /\ key = [c \in Console |-> 0]
  /\ served = {}

Goto(c, to) == pc' = [pc EXCEPT ![c] = to]

Start(c) ==
  /\ pc[c] = "down" /\ Goto(c, "exists")
  /\ UNCHANGED <<present, content, generated, key, served>>

ExistsUnchecked(c) ==  \* a key is made on every start
  /\ pc[c] = "exists" /\ Goto(c, "generate")
  /\ UNCHANGED <<present, content, generated, key, served>>

Exists(c) ==
  /\ pc[c] = "exists" /\ Goto(c, IF present THEN "read" ELSE "generate")
  /\ UNCHANGED <<present, content, generated, key, served>>

Serve(c, k) ==
  /\ Goto(c, "serving")
  /\ key' = [key EXCEPT ![c] = k] /\ served' = served \cup {k}

ReadKeyOrMake(c) ==  \* makes a key in place of an empty one
  /\ pc[c] = "read" /\ UNCHANGED <<present, content, generated>>
  /\ IF content = 0 THEN Goto(c, "generate") /\ UNCHANGED <<key, served>>
     ELSE Serve(c, content)

ReadKey(c) ==
  /\ pc[c] = "read" /\ Serve(c, content)
  /\ UNCHANGED <<present, content, generated>>

Generate(c) ==
  /\ pc[c] = "generate" /\ generated < MaxKeys
  /\ generated' = generated + 1 /\ key' = [key EXCEPT ![c] = generated + 1]
  /\ Goto(c, "open")
  /\ UNCHANGED <<present, content, served>>

(* writeFileSync creates the file, or empties it ...                       *)
OpenKeyFile(c) ==
  /\ pc[c] = "open" /\ Goto(c, "write")
  /\ present' = TRUE /\ content' = 0
  /\ UNCHANGED <<generated, key, served>>

(* ... and then writes.                                                    *)
WriteKey(c) ==
  /\ pc[c] = "write" /\ content' = key[c]
  /\ Serve(c, key[c])
  /\ UNCHANGED <<present, generated>>

(* A console is stopped, or crashes, at any time.                          *)
Stop(c) ==
  /\ pc[c] # "down" /\ Goto(c, "down")
  /\ key' = [key EXCEPT ![c] = 0]
  /\ UNCHANGED <<present, content, generated, served>>

Next ==
  \E c \in Console :
    \/ Start(c) \/ Exists(c) \/ ReadKey(c) \/ Generate(c)
    \/ OpenKeyFile(c) \/ WriteKey(c) \/ Stop(c)

Spec == Init /\ [][Next]_vars

-----------------------------------------------------------------------------
(* Consoles that have found no file and go on to make a key.               *)
Making == {c \in Console : pc[c] \in {"generate", "open", "write"}}

(* However the starts of consoles interleave and wherever they are         *)
(* stopped, each makes at most one key that is ever served with: only      *)
(* those that checked before the file was there have made one, and they    *)
(* find it when they start again.                                          *)
OneKeyEach == Cardinality(served \ {0}) <= Cardinality(Console)

(* Once the file is there and nobody is on the way to write it, no start   *)
(* and no stop changes it or makes another key, and every console that     *)
(* starts from then on serves with what it holds.  This is what is left of *)
(* "generated once per console install": consoles that start together on a *)
(* new directory may serve with a key each before, and what the file holds *)
(* is the empty key if one was stopped between creating and writing it.    *)
Settled == present /\ Making = {}

KeyStays ==
  [][Settled => /\ Settled' /\ content' = content
                /\ served' \subseteq served \cup {content}]_vars

(* Why: a key that is made needs a console that has not yet served one.    *)
FileInv ==
  /\ ~ present => served = {}
  /\ content \in served \cup {0}
  /\ \A c \in Console : pc[c] \in {"read", "write"} => present
  /\ Cardinality(served \ {0}) + Cardinality(Making) <= Cardinality(Console)

IInv == TypeOK /\ FileInv
=============================================================================
