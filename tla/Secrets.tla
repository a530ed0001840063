------------------------------ MODULE Secrets ------------------------------
(***************************************************************************)
(* The settings of the integrations, encrypted at rest: the rows, the keys *)
(* of the process that runs, and the rotation that finishes by itself when *)
(* a value is read (settings/settings.service.ts, secret-cipher.ts), with  *)
(* two who keep values there: the media server's credentials               *)
(* (streaming/livekit.service.ts) and the announcements of the platform.   *)
(* The layout of the award cards (settings/award-card-settings.service.ts), *)
(* one row saved over what was read before, is a third and left out.       *)
(*                                                                         *)
(* A key is a number, greater than the keys before it; Plain stands for a  *)
(* value that no key protects.  A value is the number of the save that     *)
(* wrote it.  A read and a save of several rows are steps, and the process *)
(* may be deployed again between any two.  MaxKeys bounds the rotations and *)
(* MaxSaves the saves.                                                     *)
(***************************************************************************)
EXTENDS Naturals, Sequences, SequencesExt

CONSTANTS Credentials,  \* the rows of the media server, saved in this order
          Announcement, \* the row of the latest announcement
          MaxKeys, MaxSaves

VARIABLES rows,      \* setting -> its row, or NoRow
          keys,      \* encryptionKeys of the process, the primary first
          reading,   \* the getMany under way, or NoReading
          saving,    \* the rows the save under way has still to write
          cache,     \* what LivekitService holds of the credentials, or NoCache
          migrated,  \* the settings read, and rewritten where needed, since the deploy
          saves

vars == <<rows, keys, reading, saving, cache, migrated, saves>>

Settings == ToSet(Credentials) \cup {Announcement}
Plain == 0
NoRow == [value |-> 0, under |-> Plain]
NoReading == [of |-> {}, values |-> <<>>, stale |-> {}, failed |-> {}]
NoCache == <<>>

Stored(s) == rows[s] # NoRow
Primary == IF keys = <<>> THEN Plain ELSE Head(keys)

\* What is kept in the clear is read by everyone, the rest by who has its key.
Opens(row) == row.under = Plain \/ row.under \in ToSet(keys)
Encrypted(v) == [value |-> v, under |-> Primary]

Init == /\ keys \in {<<>>, <<1>>}
        /\ rows \in [Settings -> {NoRow, [value |-> 1, under |-> Plain], [value |-> 1, under |-> Primary]}]
        /\ reading = NoReading /\ saving = <<>> /\ cache = NoCache
        /\ migrated = {} /\ saves = 1
-----------------------------------------------------------------------------
(* getMany: read the rows, then rewrite under the primary key what another *)
(* one, or none, protects.                                                 *)

\* Mutant: what an old key opens is rewritten under that same key.
RewrittenAsItWas(s) == [value |-> reading.values[s], under |-> rows[s].under]
Rewritten(s) == Encrypted(reading.values[s])

Stale(s) == Primary # Plain /\ rows[s].under # Primary

getMany(ks) ==
  LET opened == {s \in ks : Stored(s) /\ Opens(rows[s])} IN
  /\ reading = NoReading
  /\ reading' = [of |-> ks, values |-> [s \in opened |-> rows[s].value],
                 stale |-> {s \in opened : Stale(s)}, failed |-> {}]

\* A rewrite that fails is logged, and the value stays as it was.
Rewrite(s) ==
  /\ s \in reading.stale
  /\ \/ rows' = [rows EXCEPT ![s] = Rewritten(s)]
        /\ reading' = [reading EXCEPT !.stale = @ \ {s}]
     \/ UNCHANGED rows
        /\ reading' = [reading EXCEPT !.stale = @ \ {s}, !.failed = @ \cup {s}]
  /\ UNCHANGED <<keys, saving, cache, migrated, saves>>

Read(ks) == reading.of = ks /\ reading.stale = {}

\* The cached credentials are replaced by what was read, however long ago.
load == /\ Read(ToSet(Credentials))
        /\ cache' = reading.values
        /\ reading' = NoReading /\ migrated' = migrated \cup (reading.of \ reading.failed)
        /\ UNCHANGED <<rows, keys, saving, saves>>

latest == /\ Read({Announcement})
          /\ reading' = NoReading /\ migrated' = migrated \cup (reading.of \ reading.failed)
          /\ UNCHANGED <<rows, keys, saving, cache, saves>>

\* A request needs the credentials, and the cache is empty or too old.
credentials == getMany(ToSet(Credentials)) /\ UNCHANGED <<rows, keys, saving, cache, migrated, saves>>
Visit == getMany({Announcement}) /\ UNCHANGED <<rows, keys, saving, cache, migrated, saves>>
-----------------------------------------------------------------------------
(* The saves.                                                              *)

Save(ss) == saving = <<>> /\ saves < MaxSaves /\ saves' = saves + 1 /\ saving' = ss

\* An empty secret, the last of the credentials, keeps the one that is stored.
save == /\ \E keepsSecret \in BOOLEAN : Save(IF keepsSecret THEN Front(Credentials) ELSE Credentials)
        /\ UNCHANGED <<rows, keys, reading, cache, migrated>>

publish == Save(<<Announcement>>) /\ UNCHANGED <<rows, keys, reading, cache, migrated>>

\* set: one row of the save; the last of the credentials forgets the cache.
set == /\ saving # <<>>
       /\ rows' = [rows EXCEPT ![Head(saving)] = Encrypted(saves)]
       /\ saving' = Tail(saving)
       /\ cache' = IF Len(saving) = 1 /\ Head(saving) # Announcement THEN NoCache ELSE cache
       /\ UNCHANGED <<keys, reading, migrated, saves>>

clear == /\ saving = <<>> /\ \E s \in ToSet(Credentials) : Stored(s)
         /\ rows' = [s \in Settings |-> IF s = Announcement THEN rows[s] ELSE NoRow]
         /\ cache' = NoCache
         /\ UNCHANGED <<keys, reading, saving, migrated, saves>>
-----------------------------------------------------------------------------
(* The deploys.                                                            *)

Boot(ks) == /\ keys' = ks
            /\ reading' = NoReading /\ saving' = <<>> /\ cache' = NoCache /\ migrated' = {}
            /\ UNCHANGED <<rows, saves>>

Restart == Boot(keys)

\* The new key goes before the ones it replaces.
Rotate == LET newest == IF keys = <<>> THEN 1 ELSE Head(keys) + 1 IN
          newest <= MaxKeys /\ Boot(<<newest>> \o keys)

\* The old keys leave the list when the deploy that had them has read every value.
RetireOldKeys == Len(keys) > 1 /\ migrated = Settings /\ Boot(<<Head(keys)>>)

Next == \/ credentials \/ Visit \/ (\E s \in Settings : Rewrite(s)) \/ load \/ latest
        \/ save \/ publish \/ set \/ clear
        \/ Restart \/ Rotate \/ RetireOldKeys
-----------------------------------------------------------------------------
\* Whatever is saved, removed and read while the keys are rotated, and wherever
\* the deploys cut a save or a rewrite in two, every value that is stored can be
\* opened by the process that runs: "os valores migram sozinhos para a chave nova
\* na próxima leitura, então a chave antiga só precisa ficar na lista por um deploy".
EveryValueOpens == \A s \in Settings : Stored(s) => Opens(rows[s])
=============================================================================
