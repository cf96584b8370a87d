---------------------------- MODULE StoresProofs ----------------------------
(***************************************************************************)
(* What the stores promise, for every value of the constants: proofs about *)
(* module MCStores.  Each store keeps an invariant of its own; no store    *)
(* sees the variables of another, which is what the last section says.     *)
(***************************************************************************)
EXTENDS MCStores, Integers, FiniteSetTheorems, WellFoundedInduction, TLAPS

(***************************************************************************)
(* The offline cache.  A staged file belongs to the one command that is    *)
(* downloading it, unless its name is one that two have shared; what such  *)
(* a command may meet there depends on how far it has come.                *)
(***************************************************************************)
Staging     == {"created", "written", "checked"}
Downloading == {"fetched", "kept"} \union Staging
Saving      == {"saving", "truncated"}

CacheSteps  == {"idle"} \union Downloading \union Saving

CacheCommand == [pc : CacheSteps, name : {<<>>} \union Cache!Names,
                 bytes : Cache!Bytes \union {Cache!None}, entries : SUBSET Cache!Entry]

CacheFiles == [Cache!Names -> Cache!Bytes \union {Cache!None, Cache!Half}]

CacheTyped ==
    /\ cached \in CacheFiles /\ partial \in CacheFiles
    /\ manifest \subseteq Cache!Entry
    /\ commands \in [Commands -> CacheCommand]
    /\ handle \in [Commands -> {Cache!None, "partial", "cached"}]
    /\ mixed \subseteq Cache!Names

\* Entries that speak of bytes that have passed the check.
Speak(entries, shared) ==
    \A e \in entries : <<e.item, e.version>> \in shared \/ e.digest \in Sound

\* What is true of a command k with the file h open, when the staged files are `staged` and two
\* downloads have shared the names `shared`.
CommandFits(k, h, staged, shared) ==
    /\ k.pc = "idle" => k.entries = {}
    /\ k.pc \in Downloading => k.name \in Cache!Names /\ k.bytes \in Cache!Bytes
    /\ h # Cache!None => k.pc = "created"
    /\ h = "cached" => k.name \in shared
    /\ k.pc = "created" /\ h = Cache!None => k.name \in shared \/ staged[k.name] = Cache!None
    /\ k.pc = "written" => k.name \in shared \/ staged[k.name] \in {Cache!None, k.bytes}
    /\ k.pc = "checked" =>
           k.name \in shared \/ staged[k.name] \in {Cache!None} \union ({k.bytes} \intersect Sound)
    /\ k.pc = "kept" => k.name \in shared \/ k.bytes \in Sound
    /\ k.pc \in Saving => Speak(k.entries, shared)

CommandsFit == \A c \in Commands : CommandFits(commands[c], handle[c], partial, mixed)

NoNameTwice ==
    \A c, d \in Commands :
        c # d /\ commands[c].pc \in Staging /\ commands[d].pc \in Staging
              /\ commands[c].name = commands[d].name
        => commands[c].name \in mixed

CacheInv == CacheTyped /\ CommandsFit /\ NoNameTwice /\ NothingUnchecked

\* What a step may do to the file that another command d has open.
HandleStays(d) ==
    \/ handle'[d] = handle[d]
    \/ /\ handle[d] # Cache!None /\ handle'[d] \in {Cache!None, "cached"}
       /\ commands[d].name \in mixed'
    \/ handle'[d] = Cache!None /\ partial'[commands[d].name] = Cache!None

\* A command that goes on to r, and changes no staged file but its own or to delete it.
LEMMA CommandGoesOn ==
    ASSUME CacheInv, NEW c \in Commands, NEW r \in CacheCommand,
           commands' = [commands EXCEPT ![c] = r],
           CommandFits(r, handle'[c], partial', mixed'),
           mixed \subseteq mixed',
           \A d \in Commands \ {c} : HandleStays(d),
           r.pc \in Staging =>
               \A d \in Commands \ {c} :
                   commands[d].pc \in Staging /\ commands[d].name = r.name => r.name \in mixed',
           \A n \in Cache!Names :
               \/ partial'[n] \in {partial[n], Cache!None}
               \/ r.pc \in Staging /\ n = r.name
    PROVE  /\ commands' \in [Commands -> CacheCommand]
           /\ CommandsFit'
           /\ NoNameTwice'
  <1>1. commands \in [Commands -> CacheCommand]
    BY DEF CacheInv, CacheTyped
  <1>2. /\ commands'[c] = r
        /\ \A d \in Commands : d # c => commands'[d] = commands[d]
    BY <1>1
  <1>3. commands' \in [Commands -> CacheCommand]
    BY <1>1
  <1>4. NoNameTwice'
    <2>1. SUFFICES ASSUME NEW a \in Commands, NEW b \in Commands, a # b,
                          commands'[a].pc \in Staging, commands'[b].pc \in Staging,
                          commands'[a].name = commands'[b].name
                   PROVE  commands'[a].name \in mixed'
      BY DEF NoNameTwice
    <2>2. CASE a = c
      BY <1>2, <2>1, <2>2
    <2>3. CASE b = c
      BY <1>2, <2>1, <2>3
    <2>4. CASE a # c /\ b # c
      BY <1>2, <2>1, <2>4 DEF CacheInv, NoNameTwice
    <2> QED BY <2>2, <2>3, <2>4
  <1>5. ASSUME NEW d \in Commands PROVE CommandFits(commands'[d], handle'[d], partial', mixed')
    <2>1. CASE d = c
      BY <2>1, <1>2
    <2>2. CASE d # c
      <3>1. commands'[d] = commands[d] /\ CommandFits(commands[d], handle[d], partial, mixed)
        BY <2>2, <1>2 DEF CacheInv, CommandsFit
      <3>2. HandleStays(d)
        BY <2>2
      <3> DEFINE k == commands[d]
      <3>3. k.pc \in Staging => \/ k.name \in mixed'
                                \/ partial'[k.name] \in {partial[k.name], Cache!None}
        <4>1. k.pc \in Staging => k.name \in Cache!Names
          BY <3>1 DEF CommandFits, Downloading
        <4> QED BY <2>2, <4>1
      <3>4. Speak(k.entries, mixed) => Speak(k.entries, mixed')
        BY DEF Speak
      <3> HIDE DEF k
      <3>5. CommandFits(k, handle[d], partial, mixed)
        BY <3>1 DEF k
      <3>6. /\ k.pc = "idle" => k.entries = {}
            /\ k.pc \in Downloading => k.name \in Cache!Names /\ k.bytes \in Cache!Bytes
            /\ k.pc = "kept" => k.name \in mixed' \/ k.bytes \in Sound
            /\ k.pc \in Saving => Speak(k.entries, mixed')
        BY <3>4, <3>5 DEF CommandFits
      <3>7. /\ handle'[d] # Cache!None => k.pc = "created"
            /\ handle'[d] = "cached" => k.name \in mixed'
        BY <3>2, <3>5 DEF CommandFits, HandleStays, k, Cache!None
      <3>8. k.pc = "created" /\ handle'[d] = Cache!None
                => k.name \in mixed' \/ partial'[k.name] = Cache!None
        <4>1. k.pc \in Staging <=> k.pc \in {"created", "written", "checked"}
          BY DEF Staging
        <4> QED BY <3>2, <3>3, <3>5, <4>1 DEF CommandFits, HandleStays, k
      <3>9. /\ k.pc = "written" => k.name \in mixed' \/ partial'[k.name] \in {Cache!None, k.bytes}
            /\ k.pc = "checked" => \/ k.name \in mixed'
                                   \/ partial'[k.name] \in
                                         {Cache!None} \union ({k.bytes} \intersect Sound)
        BY <3>3, <3>5 DEF CommandFits, Staging
      <3> QED BY <3>1, <3>6, <3>7, <3>8, <3>9 DEF CommandFits, k
    <2> QED BY <2>1, <2>2
  <1> QED BY <1>3, <1>4, <1>5 DEF CommandsFit

\* A command at rest fits whatever is staged.
LEMMA IdleFits ==
    /\ Cache!Idle \in CacheCommand /\ Cache!Idle.pc = "idle" /\ Cache!Idle.entries = {}
    /\ Cache!Idle.pc \notin Staging
    /\ \A staged, shared : CommandFits(Cache!Idle, Cache!None, staged, shared)
  <1>1. Cache!Idle \in CacheCommand /\ Cache!Idle.pc = "idle" /\ Cache!Idle.entries = {}
    <2>1. "idle" \in CacheSteps /\ <<>> \in {<<>>} \union Cache!Names
      BY DEF CacheSteps
    <2>2. {} \in SUBSET Cache!Entry /\ Cache!None \in Cache!Bytes \union {Cache!None}
      OBVIOUS
    <2> QED BY <2>1, <2>2 DEF CacheCommand, Cache!Idle
  <1>2. \A staged, shared : CommandFits(Cache!Idle, Cache!None, staged, shared)
    BY <1>1 DEF CommandFits, Downloading, Staging, Saving, Cache!None
  <1> QED BY <1>1, <1>2 DEF Staging

\* What the invariant says of one command.
LEMMA CommandIs ==
    ASSUME CacheInv, NEW c \in Commands
    PROVE  /\ commands[c] \in CacheCommand
           /\ CommandFits(commands[c], handle[c], partial, mixed)
           /\ handle[c] \in {Cache!None, "partial", "cached"}
           /\ commands[c].pc \in Staging =>
                 /\ commands[c].pc \in Downloading /\ commands[c].name \in Cache!Names
                 /\ commands[c].bytes \in Cache!Bytes
  <1>1. commands[c] \in CacheCommand /\ CommandFits(commands[c], handle[c], partial, mixed)
        /\ handle[c] \in {Cache!None, "partial", "cached"}
    BY DEF CacheInv, CacheTyped, CommandsFit
  <1>2. commands[c].pc \in Staging =>
            commands[c].pc \in Downloading /\ commands[c].name \in Cache!Names
                /\ commands[c].bytes \in Cache!Bytes
    BY <1>1 DEF CommandFits, Downloading
  <1> QED BY <1>1, <1>2

LEMMA CachedBytes ==
    ASSUME CacheInv, manifest' \subseteq manifest, mixed \subseteq mixed', cached' \in CacheFiles,
           \A n \in Cache!Names : cached'[n] \in {cached[n], Cache!None} \union Sound \/ n \in mixed'
    PROVE  manifest' \subseteq Cache!Entry /\ NothingUnchecked'
  <1>1. /\ \A n \in Cache!Names \ mixed : cached[n] \in Sound \union {Cache!None}
        /\ \A e \in manifest : <<e.item, e.version>> \in mixed \/ e.digest \in Sound
    BY DEF CacheInv, NothingUnchecked, Cache!NothingUnchecked
  <1>2. \A n \in Cache!Names \ mixed' : cached'[n] \in Sound \union {Cache!None}
    BY <1>1
  <1>3. \A e \in manifest' : <<e.item, e.version>> \in mixed' \/ e.digest \in Sound
    BY <1>1
  <1> QED BY <1>2, <1>3 DEF CacheInv, CacheTyped, NothingUnchecked, Cache!NothingUnchecked

LEMMA FetchKeeps ==
    ASSUME CacheInv, NEW c \in Commands, NEW name \in Cache!Names,
           NEW bytes \in Cache!Bytes, NEW expected, Cache!Fetch(c, name, bytes, expected)
    PROVE  CacheInv'
  <1> DEFINE r == [Cache!Idle EXCEPT !.pc = "fetched", !.name = name, !.bytes = bytes]
  <1>1. /\ commands' = [commands EXCEPT ![c] = r] /\ commands[c].pc = "idle"
        /\ UNCHANGED <<cached, partial, manifest, handle, mixed>>
    BY DEF Cache!Fetch, Cache!At
  <1>2. r \in CacheCommand /\ r.pc = "fetched" /\ r.name = name /\ r.bytes = bytes
    <2>1. "fetched" \in CacheSteps /\ bytes \in Cache!Bytes \union {Cache!None}
      BY DEF CacheSteps, Downloading
    <2> QED BY <2>1, IdleFits DEF CacheCommand
  <1> HIDE DEF r
  <1>3. handle[c] = Cache!None
    BY <1>1, CommandIs DEF CommandFits
  <1>4. CommandFits(r, handle'[c], partial', mixed') /\ r.pc \notin Staging
    BY <1>1, <1>2, <1>3 DEF CommandFits, Saving, Staging, Cache!None
  <1>5. commands' \in [Commands -> CacheCommand] /\ CommandsFit' /\ NoNameTwice'
    BY <1>1, <1>2, <1>4, CommandGoesOn DEF HandleStays
  <1> QED BY <1>1, <1>5 DEF CacheInv, CacheTyped, NothingUnchecked, Cache!NothingUnchecked

\* A download that only goes on from one step to the next, and keeps what it carries.
LEMMA CommandSteps ==
    ASSUME CacheInv, NEW c \in Commands, NEW pc \in CacheSteps, Cache!Goes(c, pc),
           CommandFits([commands[c] EXCEPT !.pc = pc], handle'[c], partial', mixed'),
           mixed \subseteq mixed',
           \A d \in Commands \ {c} : HandleStays(d),
           pc \in Staging =>
               \/ commands[c].pc \in Staging
               \/ \A d \in Commands \ {c} :
                     commands[d].pc \in Staging /\ commands[d].name = commands[c].name
                     => commands[c].name \in mixed',
           \A n \in Cache!Names :
               \/ partial'[n] \in {partial[n], Cache!None}
               \/ pc \in Staging /\ n = commands[c].name
    PROVE  commands' \in [Commands -> CacheCommand] /\ CommandsFit' /\ NoNameTwice'
  <1> DEFINE r == [commands[c] EXCEPT !.pc = pc]
  <1>1. commands[c] \in CacheCommand
    BY CommandIs
  <1>2. r \in CacheCommand /\ r.pc = pc /\ r.name = commands[c].name
    BY <1>1 DEF CacheCommand
  <1>3. commands' = [commands EXCEPT ![c] = r]
    BY DEF Cache!Goes
  <1>4. CommandFits(r, handle'[c], partial', mixed')
    OBVIOUS
  <1> HIDE DEF r
  <1>5. r.pc \in Staging =>
            \A d \in Commands \ {c} :
                commands[d].pc \in Staging /\ commands[d].name = r.name => r.name \in mixed'
    BY <1>2 DEF CacheInv, NoNameTwice
  <1> QED BY <1>2, <1>3, <1>4, <1>5, CommandGoesOn

\* A command that ends, and leaves the staged files or deletes some.
LEMMA CommandEnds ==
    ASSUME CacheInv, NEW c \in Commands, Cache!Ends(c), handle'[c] = Cache!None,
           mixed \subseteq mixed',
           \A d \in Commands \ {c} : HandleStays(d),
           \A n \in Cache!Names : partial'[n] \in {partial[n], Cache!None}
    PROVE  commands' \in [Commands -> CacheCommand] /\ CommandsFit' /\ NoNameTwice'
  <1>1. commands' = [commands EXCEPT ![c] = Cache!Idle]
    BY DEF Cache!Ends
  <1>2. CommandFits(Cache!Idle, handle'[c], partial', mixed')
    BY IdleFits
  <1> QED BY <1>1, <1>2, IdleFits, CommandGoesOn

\* Two downloads of one name that have a staged file at once have it in common.
LEMMA CreateKeeps ==
    ASSUME CacheInv, NEW c \in Commands, Cache!Create(c) PROVE CacheInv'
  <1>1. /\ commands[c].pc = "fetched" /\ Cache!Goes(c, "created")
        /\ partial' = [partial EXCEPT ![commands[c].name] = Cache!Half]
        /\ handle' = [handle EXCEPT ![c] = "partial"]
        /\ UNCHANGED <<cached, manifest>>
    BY DEF Cache!Create, Cache!At
  <1>2. commands[c] \in CacheCommand /\ CommandFits(commands[c], handle[c], partial, mixed)
        /\ commands[c].name \in Cache!Names /\ commands[c].bytes \in Cache!Bytes
    BY <1>1, CommandIs DEF CommandFits, Downloading
  <1>3. /\ mixed \subseteq mixed' /\ mixed' \subseteq Cache!Names
        /\ \A d \in Commands \ {c} :
               commands[d].pc \in Staging /\ commands[d].name = commands[c].name
               => commands[c].name \in mixed'
    BY <1>2 DEF Cache!Create, Cache!Mixes, Cache!Shared, Staging, CacheInv, CacheTyped
  <1>4. /\ partial' \in CacheFiles
        /\ \A n \in Cache!Names : n # commands[c].name => partial'[n] = partial[n]
    BY <1>1, <1>2 DEF CacheInv, CacheTyped, CacheFiles
  <1>5. /\ handle' \in [Commands -> {Cache!None, "partial", "cached"}]
        /\ handle'[c] = "partial" /\ \A d \in Commands \ {c} : HandleStays(d)
    BY <1>1 DEF CacheInv, CacheTyped, HandleStays
  <1>6. CommandFits([commands[c] EXCEPT !.pc = "created"], handle'[c], partial', mixed')
    BY <1>2, <1>5 DEF CommandFits, CacheCommand, Downloading, Staging, Saving, Cache!None
  <1>7. "created" \in CacheSteps /\ "created" \in Staging
    BY DEF CacheSteps, Downloading, Staging
  <1>8. commands' \in [Commands -> CacheCommand] /\ CommandsFit' /\ NoNameTwice'
    BY <1>1, <1>3, <1>4, <1>5, <1>6, <1>7, CommandSteps
  <1>9. NothingUnchecked'
    BY <1>1, <1>3, CachedBytes DEF CacheInv, CacheTyped
  <1> QED BY <1>1, <1>3, <1>4, <1>5, <1>8, <1>9 DEF CacheInv, CacheTyped

LEMMA WriteKeeps ==
    ASSUME CacheInv, NEW c \in Commands, Cache!Write(c) PROVE CacheInv'
  <1> DEFINE name == commands[c].name
             bytes == commands[c].bytes
  <1>1. /\ commands[c].pc = "created" /\ Cache!Goes(c, "written")
        /\ partial' = IF handle[c] = "partial" THEN [partial EXCEPT ![name] = bytes] ELSE partial
        /\ cached' = IF handle[c] = "cached" THEN [cached EXCEPT ![name] = bytes] ELSE cached
        /\ handle' = [handle EXCEPT ![c] = Cache!None]
        /\ UNCHANGED <<manifest, mixed>>
    BY DEF Cache!Write, Cache!At
  <1>2. /\ commands[c] \in CacheCommand /\ CommandFits(commands[c], handle[c], partial, mixed)
        /\ handle[c] \in {Cache!None, "partial", "cached"} /\ commands[c].pc \in Staging
        /\ name \in Cache!Names /\ bytes \in Cache!Bytes
    BY <1>1, CommandIs DEF Staging
  <1> HIDE DEF name, bytes
  <1>3. /\ partial' \in CacheFiles /\ cached' \in CacheFiles
        /\ \A n \in Cache!Names : n # name => partial'[n] = partial[n] /\ cached'[n] = cached[n]
    BY <1>1, <1>2 DEF CacheInv, CacheTyped, CacheFiles
  <1>4. name \in mixed \/ partial'[name] \in {Cache!None, bytes}
    BY <1>1, <1>2 DEF CommandFits, name, CacheInv, CacheTyped, CacheFiles
  <1>5. cached'[name] = cached[name] \/ name \in mixed
    BY <1>1, <1>2 DEF CommandFits, name
  <1>6. /\ handle' \in [Commands -> {Cache!None, "partial", "cached"}]
        /\ handle'[c] = Cache!None /\ \A d \in Commands \ {c} : HandleStays(d)
    BY <1>1 DEF CacheInv, CacheTyped, HandleStays
  <1>7. CommandFits([commands[c] EXCEPT !.pc = "written"], handle'[c], partial', mixed')
    BY <1>1, <1>2, <1>4, <1>6
       DEF CommandFits, CacheCommand, Downloading, Staging, Saving, name, bytes, Cache!None
  <1>8. "written" \in CacheSteps /\ "written" \in Staging
    BY DEF CacheSteps, Downloading, Staging
  <1>9. commands' \in [Commands -> CacheCommand] /\ CommandsFit' /\ NoNameTwice'
    BY <1>1, <1>2, <1>3, <1>6, <1>7, <1>8, CommandSteps DEF name
  <1>10. NothingUnchecked'
    BY <1>1, <1>3, <1>5, CachedBytes
  <1> QED BY <1>1, <1>3, <1>6, <1>9, <1>10 DEF CacheInv, CacheTyped

LEMMA VerifyKeeps ==
    ASSUME CacheInv, NEW c \in Commands, Cache!Verify(c) PROVE CacheInv'
  <1>1. /\ commands[c].pc = "written" /\ Cache!Goes(c, "checked")
        /\ partial[commands[c].name] \in Sound \union {Cache!Half, Cache!None}
        /\ UNCHANGED <<cached, partial, manifest, handle, mixed>>
    BY DEF Cache!Verify, Cache!At, Cache!Passes
  <1>2. commands[c] \in CacheCommand /\ CommandFits(commands[c], handle[c], partial, mixed)
        /\ commands[c].pc \in Staging /\ commands[c].bytes \in Cache!Bytes
    BY <1>1, CommandIs DEF Staging
  <1>3. commands[c].name \in mixed
            \/ partial[commands[c].name] \in {Cache!None} \union ({commands[c].bytes} \intersect Sound)
    BY <1>1, <1>2, BytesAssumption DEF CommandFits, Cache!Bytes
  <1>4. CommandFits([commands[c] EXCEPT !.pc = "checked"], handle'[c], partial', mixed')
    BY <1>1, <1>2, <1>3 DEF CommandFits, CacheCommand, Downloading, Staging, Saving
  <1>5. "checked" \in CacheSteps /\ "checked" \in Staging
    BY DEF CacheSteps, Downloading, Staging
  <1>6. commands' \in [Commands -> CacheCommand] /\ CommandsFit' /\ NoNameTwice'
    BY <1>1, <1>2, <1>4, <1>5, CommandSteps DEF HandleStays
  <1> QED BY <1>1, <1>6 DEF CacheInv, CacheTyped, NothingUnchecked, Cache!NothingUnchecked

\* What a step does that takes a staged file away, to those who have it open.
LEMMA OneIsTaken ==
    ASSUME CacheInv, NEW c \in Commands, commands[c].pc \in {"written", "checked"},
           NEW d \in Commands \ {c}, commands[d].name = commands[c].name, handle[d] # Cache!None
    PROVE  commands[d].name \in mixed
  <1>1. commands[d].pc \in Staging
    BY CommandIs DEF CommandFits, Staging
  <1> QED BY <1>1 DEF CacheInv, NoNameTwice, Staging

LEMMA RejectKeeps ==
    ASSUME CacheInv, NEW c \in Commands, Cache!Reject(c) PROVE CacheInv'
  <1>1. /\ commands[c].pc = "written" /\ Cache!Ends(c)
        /\ partial' = [partial EXCEPT ![commands[c].name] = Cache!None]
        /\ handle' = Cache!Deleted({commands[c].name}, {"partial"})
        /\ UNCHANGED <<cached, manifest, mixed>>
    BY DEF Cache!Reject, Cache!At
  <1>2. /\ partial' \in CacheFiles
        /\ \A n \in Cache!Names : partial'[n] \in {partial[n], Cache!None}
    BY <1>1 DEF CacheInv, CacheTyped, CacheFiles
  <1>3. handle[c] = Cache!None
    BY <1>1, CommandIs DEF CommandFits
  <1>4. /\ handle' \in [Commands -> {Cache!None, "partial", "cached"}]
        /\ \A d \in Commands : handle'[d] = handle[d] \/
               (commands[d].name = commands[c].name /\ handle[d] = "partial" /\ handle'[d] = Cache!None)
    BY <1>1 DEF Cache!Deleted, CacheInv, CacheTyped
  <1>5. handle'[c] = Cache!None /\ \A d \in Commands \ {c} : HandleStays(d)
    <2>1. handle'[c] = Cache!None
      BY <1>3, <1>4
    <2>2. ASSUME NEW d \in Commands \ {c} PROVE HandleStays(d)
      <3>1. CASE handle'[d] = handle[d]
        BY <3>1 DEF HandleStays
      <3>2. CASE commands[d].name = commands[c].name /\ handle[d] = "partial"
                     /\ handle'[d] = Cache!None
        BY <1>1, <3>2, OneIsTaken DEF HandleStays, Cache!None
      <3> QED BY <1>4, <3>1, <3>2
    <2> QED BY <2>1, <2>2
  <1>6. commands' \in [Commands -> CacheCommand] /\ CommandsFit' /\ NoNameTwice'
    BY <1>1, <1>2, <1>5, CommandEnds
  <1> QED BY <1>1, <1>2, <1>4, <1>6 DEF CacheInv, CacheTyped, NothingUnchecked, Cache!NothingUnchecked

LEMMA KeepKeeps ==
    ASSUME CacheInv, NEW c \in Commands, Cache!Keep(c) PROVE CacheInv'
  <1> DEFINE name == commands[c].name
  <1>1. /\ commands[c].pc = "checked" /\ Cache!Goes(c, "kept")
        /\ partial[name] # Cache!None
        /\ cached' = [cached EXCEPT ![name] = partial[name]]
        /\ partial' = [partial EXCEPT ![name] = Cache!None]
        /\ handle' = Cache!Renamed(name)
        /\ UNCHANGED <<manifest, mixed>>
    BY DEF Cache!Keep, Cache!At
  <1>2. /\ commands[c] \in CacheCommand /\ CommandFits(commands[c], handle[c], partial, mixed)
        /\ commands[c].pc \in Staging /\ name \in Cache!Names /\ commands[c].bytes \in Cache!Bytes
        /\ handle[c] = Cache!None
    BY <1>1, CommandIs DEF Staging, CommandFits
  <1>3. name \in mixed \/ (partial[name] = commands[c].bytes /\ commands[c].bytes \in Sound)
    BY <1>1, <1>2 DEF CommandFits
  <1>4. /\ partial' \in CacheFiles /\ cached' \in CacheFiles
        /\ \A n \in Cache!Names : partial'[n] \in {partial[n], Cache!None}
        /\ \A n \in Cache!Names : cached'[n] \in {cached[n], Cache!None} \union Sound \/ n \in mixed
    BY <1>1, <1>2, <1>3 DEF CacheInv, CacheTyped, CacheFiles
  <1>5. /\ handle' \in [Commands -> {Cache!None, "partial", "cached"}]
        /\ \A d \in Commands :
               handle'[d] = handle[d] \/
               (commands[d].name = name /\ handle[d] # Cache!None /\ handle'[d] \in {Cache!None, "cached"})
    BY <1>1 DEF Cache!Renamed, CacheInv, CacheTyped
  <1>6. handle'[c] = Cache!None /\ \A d \in Commands \ {c} : HandleStays(d)
    <2>1. handle'[c] = Cache!None
      BY <1>2, <1>5
    <2>2. ASSUME NEW d \in Commands \ {c} PROVE HandleStays(d)
      <3>1. CASE handle'[d] = handle[d]
        BY <3>1 DEF HandleStays
      <3>2. CASE commands[d].name = name /\ handle[d] # Cache!None
                     /\ handle'[d] \in {Cache!None, "cached"}
        BY <1>1, <3>2, OneIsTaken DEF HandleStays
      <3> QED BY <1>5, <3>1, <3>2
    <2> QED BY <2>1, <2>2
  <1>7. CommandFits([commands[c] EXCEPT !.pc = "kept"], handle'[c], partial', mixed')
    BY <1>1, <1>2, <1>3, <1>6
       DEF CommandFits, CacheCommand, Downloading, Staging, Saving, Cache!None
  <1> HIDE DEF name
  <1>8. "kept" \in CacheSteps /\ "kept" \notin Staging
    BY DEF CacheSteps, Downloading, Staging
  <1>9. commands' \in [Commands -> CacheCommand] /\ CommandsFit' /\ NoNameTwice'
    BY <1>1, <1>4, <1>6, <1>7, <1>8, CommandSteps
  <1>10. NothingUnchecked'
    BY <1>1, <1>4, CachedBytes
  <1> QED BY <1>1, <1>4, <1>5, <1>9, <1>10 DEF CacheInv, CacheTyped

LEMMA ListKeeps ==
    ASSUME CacheInv, NEW c \in Commands, Cache!List(c) PROVE CacheInv'
  <1> DEFINE new == [item |-> commands[c].name[1], version |-> commands[c].name[2],
                     digest |-> commands[c].bytes]
             list == Cache!Without(manifest, commands[c].name[1]) \union {new}
             r == [commands[c] EXCEPT !.pc = "saving", !.entries = list]
  <1>1. /\ commands[c].pc = "kept"
        /\ commands' = [commands EXCEPT ![c] = r]
        /\ UNCHANGED <<cached, partial, manifest, handle, mixed>>
    BY DEF Cache!List, Cache!At
  <1>2. commands[c] \in CacheCommand /\ CommandFits(commands[c], handle[c], partial, mixed)
        /\ handle[c] = Cache!None
    BY <1>1, CommandIs DEF CommandFits
  <1>3. /\ commands[c].name \in mixed \/ commands[c].bytes \in Sound
        /\ commands[c].name \in Cache!Names /\ commands[c].bytes \in Cache!Bytes
    BY <1>1, <1>2 DEF CommandFits, Downloading
  <1>4. /\ new \in Cache!Entry /\ <<new.item, new.version>> = commands[c].name
        /\ new.digest = commands[c].bytes
    BY <1>3 DEF Cache!Entry, Cache!Names
  <1> HIDE DEF new
  <1>5. list \in SUBSET Cache!Entry /\ Speak(list, mixed)
    BY <1>3, <1>4
       DEF CacheInv, CacheTyped, NothingUnchecked, Cache!NothingUnchecked, Cache!Without, Speak
  <1> HIDE DEF list
  <1>6. "saving" \in CacheSteps /\ "saving" \notin Downloading /\ "saving" \notin Staging
    BY DEF CacheSteps, Saving, Downloading, Staging
  <1>7. /\ r \in CacheCommand /\ r.pc = "saving" /\ r.entries = list
    BY <1>2, <1>5, <1>6 DEF CacheCommand
  <1> HIDE DEF r
  <1>8. CommandFits(r, handle'[c], partial', mixed') /\ r.pc \notin Staging
    BY <1>1, <1>2, <1>5, <1>6, <1>7 DEF CommandFits, Downloading, Cache!None
  <1>9. commands' \in [Commands -> CacheCommand] /\ CommandsFit' /\ NoNameTwice'
    BY <1>1, <1>7, <1>8, CommandGoesOn DEF HandleStays
  <1> QED BY <1>1, <1>9 DEF CacheInv, CacheTyped, NothingUnchecked, Cache!NothingUnchecked

\* A command that goes from rest to the saving of entries that are in the manifest.
LEMMA BeginsToSave ==
    ASSUME CacheInv, NEW c \in Commands, NEW list \in SUBSET manifest, commands[c].pc = "idle",
           commands' = [commands EXCEPT ![c].pc = "saving", ![c].entries = list],
           UNCHANGED <<partial, mixed>>, handle'[c] = handle[c],
           \A d \in Commands \ {c} : HandleStays(d)
    PROVE  commands' \in [Commands -> CacheCommand] /\ CommandsFit' /\ NoNameTwice'
  <1> DEFINE r == [commands[c] EXCEPT !.pc = "saving", !.entries = list]
  <1>1. commands' = [commands EXCEPT ![c] = r]
    OBVIOUS
  <1>2. commands[c] \in CacheCommand /\ handle[c] = Cache!None
    BY CommandIs DEF CommandFits
  <1>3. list \in SUBSET Cache!Entry /\ Speak(list, mixed)
    BY DEF CacheInv, CacheTyped, NothingUnchecked, Cache!NothingUnchecked, Speak
  <1>4. "saving" \in CacheSteps /\ "saving" \notin Downloading /\ "saving" \notin Staging
    BY DEF CacheSteps, Saving, Downloading, Staging
  <1>5. /\ r \in CacheCommand /\ r.pc = "saving" /\ r.entries = list
    BY <1>2, <1>3, <1>4 DEF CacheCommand
  <1> HIDE DEF r
  <1>6. CommandFits(r, handle'[c], partial', mixed') /\ r.pc \notin Staging
    BY <1>2, <1>3, <1>4, <1>5 DEF CommandFits, Downloading, Cache!None
  <1> QED BY <1>1, <1>5, <1>6, CommandGoesOn

LEMMA RemoveEntryKeeps ==
    ASSUME CacheInv, NEW c \in Commands, NEW entry \in manifest, Cache!RemoveEntry(c, entry)
    PROVE  CacheInv'
  <1>1. /\ commands' = [commands EXCEPT ![c].pc = "saving",
                                        ![c].entries = Cache!Without(manifest, entry.item)]
        /\ cached' = [cached EXCEPT ![<<entry.item, entry.version>>] = Cache!None]
        /\ handle' = Cache!Deleted({<<entry.item, entry.version>>}, {"cached"})
        /\ UNCHANGED <<partial, manifest, mixed>> /\ commands[c].pc = "idle"
    BY DEF Cache!RemoveEntry, Cache!At
  <1>2. Cache!Without(manifest, entry.item) \in SUBSET manifest
    BY DEF Cache!Without
  <1>3. /\ handle' \in [Commands -> {Cache!None, "partial", "cached"}]
        /\ \A d \in Commands : handle'[d] = handle[d] \/
                                   (handle[d] = "cached" /\ handle'[d] = Cache!None)
    BY <1>1 DEF Cache!Deleted, CacheInv, CacheTyped
  <1>4. handle'[c] = handle[c] /\ \A d \in Commands \ {c} : HandleStays(d)
    <2>1. \A d \in Commands : handle[d] = "cached" => commands[d].name \in mixed
                                                    /\ commands[d].pc = "created"
      BY CommandIs DEF CommandFits, Cache!None
    <2> QED BY <1>1, <1>3, <2>1 DEF HandleStays, Cache!None
  <1>5. commands' \in [Commands -> CacheCommand] /\ CommandsFit' /\ NoNameTwice'
    BY <1>1, <1>2, <1>4, BeginsToSave
  <1>6. /\ cached' \in CacheFiles
        /\ \A n \in Cache!Names : cached'[n] \in {cached[n], Cache!None}
    BY <1>1 DEF CacheInv, CacheTyped, CacheFiles
  <1>7. NothingUnchecked'
    BY <1>1, <1>6, CachedBytes
  <1> QED BY <1>1, <1>3, <1>5, <1>6, <1>7 DEF CacheInv, CacheTyped

LEMMA PruneKeeps ==
    ASSUME CacheInv, NEW c \in Commands, Cache!Prune(c) PROVE CacheInv'
  <1> DEFINE present == {e \in manifest : cached[<<e.item, e.version>>] # Cache!None}
  <1>1. /\ commands' = [commands EXCEPT ![c].pc = "saving", ![c].entries = present]
        /\ UNCHANGED <<cached, partial, manifest, handle, mixed>> /\ commands[c].pc = "idle"
    BY DEF Cache!Prune, Cache!At
  <1>2. present \in SUBSET manifest
    OBVIOUS
  <1> HIDE DEF present
  <1>3. commands' \in [Commands -> CacheCommand] /\ CommandsFit' /\ NoNameTwice'
    BY <1>1, <1>2, BeginsToSave DEF HandleStays
  <1> QED BY <1>1, <1>3 DEF CacheInv, CacheTyped, NothingUnchecked, Cache!NothingUnchecked

LEMMA ClearKeeps ==
    ASSUME CacheInv, NEW c \in Commands, NEW left \in SUBSET Cache!Names, Cache!Clear(c, left)
    PROVE  CacheInv'
  <1>1. /\ commands[c].pc = "idle"
        /\ cached'  = [n \in Cache!Names |-> IF n \in left THEN cached[n] ELSE Cache!None]
        /\ partial' = [n \in Cache!Names |-> IF n \in left THEN partial[n] ELSE Cache!None]
        /\ handle' = Cache!Deleted(Cache!Names \ left, {"partial", "cached"})
        /\ manifest' \subseteq manifest /\ mixed' = mixed
        /\ Cache!Goes(c, "saving") \/ commands' = commands
    BY DEF Cache!Clear, Cache!At
  <1>2. /\ cached' \in CacheFiles /\ partial' \in CacheFiles
        /\ \A n \in Cache!Names : /\ cached'[n] \in {cached[n], Cache!None}
                                  /\ partial'[n] \in {partial[n], Cache!None}
                                  /\ n \notin left => partial'[n] = Cache!None
    BY <1>1 DEF CacheInv, CacheTyped, CacheFiles
  <1>3. manifest' \subseteq Cache!Entry /\ NothingUnchecked'
    BY <1>1, <1>2, CachedBytes
  <1>4. commands[c] \in CacheCommand /\ CommandFits(commands[c], handle[c], partial, mixed)
        /\ handle[c] = Cache!None /\ commands[c].entries = {}
    BY <1>1, CommandIs DEF CommandFits
  <1>5. /\ handle' \in [Commands -> {Cache!None, "partial", "cached"}]
        /\ \A d \in Commands :
               handle'[d] = handle[d] \/
               (handle'[d] = Cache!None /\ commands[d].name \in Cache!Names \ left)
    BY <1>1 DEF Cache!Deleted, CacheInv, CacheTyped
  <1>6. handle'[c] = Cache!None /\ \A d \in Commands \ {c} : HandleStays(d)
    BY <1>2, <1>4, <1>5 DEF HandleStays
  <1>7. Speak({}, mixed')
    BY DEF Speak
  <1>8. commands' \in [Commands -> CacheCommand] /\ CommandsFit' /\ NoNameTwice'
    <2>1. CASE Cache!Goes(c, "saving")
      <3>1. "saving" \in CacheSteps /\ "saving" \notin Downloading /\ "saving" \notin Staging
        BY DEF CacheSteps, Saving, Downloading, Staging
      <3>2. CommandFits([commands[c] EXCEPT !.pc = "saving"], handle'[c], partial', mixed')
        BY <1>4, <1>6, <1>7, <3>1 DEF CommandFits, CacheCommand, Cache!None
      <3> QED BY <1>1, <1>2, <1>6, <2>1, <3>1, <3>2, CommandSteps
    <2>2. CASE commands' = commands
      <3>1. commands' = [commands EXCEPT ![c] = commands[c]]
        BY <2>2 DEF CacheInv, CacheTyped
      <3>2. CommandFits(commands[c], handle'[c], partial', mixed') /\ commands[c].pc \notin Staging
        BY <1>1, <1>4, <1>6 DEF CommandFits, Downloading, Staging, Saving, Cache!None
      <3> QED BY <1>1, <1>2, <1>4, <1>6, <3>1, <3>2, CommandGoesOn
    <2> QED BY <1>1, <2>1, <2>2
  <1> QED BY <1>1, <1>2, <1>3, <1>5, <1>8 DEF CacheInv, CacheTyped

LEMMA TruncateKeeps ==
    ASSUME CacheInv, NEW c \in Commands, Cache!Truncate(c) PROVE CacheInv'
  <1>1. /\ commands[c].pc = "saving" /\ Cache!Goes(c, "truncated")
        /\ manifest' = {} /\ UNCHANGED <<cached, partial, handle, mixed>>
    BY DEF Cache!Truncate, Cache!At
  <1>2. commands[c] \in CacheCommand /\ CommandFits(commands[c], handle[c], partial, mixed)
        /\ handle[c] = Cache!None
    BY <1>1, CommandIs DEF CommandFits
  <1>3. "truncated" \in CacheSteps /\ "truncated" \notin Downloading /\ "truncated" \notin Staging
    BY DEF CacheSteps, Saving, Downloading, Staging
  <1>4. CommandFits([commands[c] EXCEPT !.pc = "truncated"], handle'[c], partial', mixed')
    BY <1>1, <1>2, <1>3 DEF CommandFits, CacheCommand, Saving, Cache!None
  <1>5. commands' \in [Commands -> CacheCommand] /\ CommandsFit' /\ NoNameTwice'
    BY <1>1, <1>3, <1>4, CommandSteps DEF HandleStays
  <1> QED BY <1>1, <1>5 DEF CacheInv, CacheTyped, NothingUnchecked, Cache!NothingUnchecked

LEMMA SaveKeeps ==
    ASSUME CacheInv, NEW c \in Commands, Cache!Save(c) PROVE CacheInv'
  <1>1. /\ commands[c].pc = "truncated" /\ Cache!Ends(c)
        /\ manifest' = commands[c].entries /\ UNCHANGED <<cached, partial, handle, mixed>>
    BY DEF Cache!Save, Cache!At
  <1>2. commands[c] \in CacheCommand /\ CommandFits(commands[c], handle[c], partial, mixed)
        /\ handle[c] = Cache!None
    BY <1>1, CommandIs DEF CommandFits
  <1>3. manifest' \subseteq Cache!Entry /\ Speak(manifest', mixed)
    BY <1>1, <1>2 DEF CommandFits, CacheCommand, Saving
  <1>4. commands' \in [Commands -> CacheCommand] /\ CommandsFit' /\ NoNameTwice'
    BY <1>1, <1>2, CommandEnds DEF HandleStays
  <1> QED BY <1>1, <1>3, <1>4
          DEF CacheInv, CacheTyped, NothingUnchecked, Cache!NothingUnchecked, Speak

LEMMA FailsKeeps ==
    ASSUME CacheInv, NEW c \in Commands, Cache!Fails(c) PROVE CacheInv'
  <1>1. Cache!Ends(c) /\ handle' = [handle EXCEPT ![c] = Cache!None]
        /\ UNCHANGED <<cached, partial, manifest, mixed>>
    BY DEF Cache!Fails
  <1>2. /\ handle' \in [Commands -> {Cache!None, "partial", "cached"}]
        /\ handle'[c] = Cache!None /\ \A d \in Commands \ {c} : HandleStays(d)
    BY <1>1 DEF CacheInv, CacheTyped, HandleStays
  <1>3. commands' \in [Commands -> CacheCommand] /\ CommandsFit' /\ NoNameTwice'
    BY <1>1, <1>2, CommandEnds
  <1> QED BY <1>1, <1>2, <1>3 DEF CacheInv, CacheTyped, NothingUnchecked, Cache!NothingUnchecked

LEMMA CrashKeeps ==
    ASSUME CacheInv, Cache!Crash PROVE CacheInv'
  <1>1. /\ commands' = [c \in Commands |-> Cache!Idle] /\ UNCHANGED <<cached, partial, manifest, mixed>>
        /\ handle' = [c \in Commands |-> Cache!None]
    BY DEF Cache!Crash
  <1>2. commands' \in [Commands -> CacheCommand] /\ CommandsFit' /\ NoNameTwice'
    BY <1>1, IdleFits DEF CommandsFit, NoNameTwice
  <1> QED BY <1>1, <1>2 DEF CacheInv, CacheTyped, NothingUnchecked, Cache!NothingUnchecked

LEMMA CacheStarts == Cache!CacheInit => CacheInv
  <1> SUFFICES ASSUME Cache!CacheInit PROVE CacheInv
    OBVIOUS
  <1>1. /\ cached = [n \in Cache!Names |-> Cache!None] /\ partial = [n \in Cache!Names |-> Cache!None]
        /\ manifest = {} /\ commands = [c \in Commands |-> Cache!Idle]
        /\ handle = [c \in Commands |-> Cache!None] /\ mixed = {}
    BY DEF Cache!CacheInit
  <1>2. commands \in [Commands -> CacheCommand] /\ CommandsFit /\ NoNameTwice
    BY <1>1, IdleFits DEF CommandsFit, NoNameTwice
  <1> QED BY <1>1, <1>2 DEF CacheInv, CacheTyped, CacheFiles, NothingUnchecked, Cache!NothingUnchecked

LEMMA CacheKeeps ==
    ASSUME CacheInv, Cache!CacheNext \/ UNCHANGED cacheVars
    PROVE  CacheInv'
  <1>1. ASSUME NEW c \in Commands, NEW name \in Cache!Names, NEW bytes \in Cache!Bytes,
               NEW expected \in Cache!Bytes \union {Cache!None},
               Cache!Fetch(c, name, bytes, expected)
        PROVE  CacheInv'
    BY <1>1, FetchKeeps
  <1>2. ASSUME NEW c \in Commands,
               Cache!Create(c) \/ Cache!Write(c) \/ Cache!Verify(c) \/ Cache!Reject(c)
                   \/ Cache!Keep(c) \/ Cache!List(c)
        PROVE  CacheInv'
    BY <1>2, CreateKeeps, WriteKeeps, VerifyKeeps, RejectKeeps, KeepKeeps, ListKeeps
  <1>3. ASSUME NEW c \in Commands, NEW e \in manifest, Cache!RemoveEntry(c, e)
        PROVE  CacheInv'
    BY <1>3, RemoveEntryKeeps
  <1>4. ASSUME NEW c \in Commands, NEW left \in SUBSET Cache!Names, Cache!Clear(c, left)
        PROVE  CacheInv'
    BY <1>4, ClearKeeps
  <1>5. ASSUME NEW c \in Commands,
               Cache!Prune(c) \/ Cache!Truncate(c) \/ Cache!Save(c) \/ Cache!Fails(c)
        PROVE  CacheInv'
    BY <1>5, PruneKeeps, TruncateKeeps, SaveKeeps, FailsKeeps
  <1>6. CASE Cache!Crash
    BY <1>6, CrashKeeps
  <1>7. CASE UNCHANGED cacheVars
    BY <1>7 DEF cacheVars, CacheInv, CacheTyped, CommandsFit, NoNameTwice, NothingUnchecked,
                Cache!NothingUnchecked
  <1> QED BY <1>1, <1>2, <1>3, <1>4, <1>5, <1>6, <1>7 DEF Cache!CacheNext

-----------------------------------------------------------------------------
(***************************************************************************)
(* The driver backups.  A directory belongs to the one program that is     *)
(* exporting to it; what a prune has deleted, or has put on its list, is   *)
(* older than some backup that is listed.                                  *)
(***************************************************************************)
Exporting == {"exporting", "writing"}
BackupSteps == {"waiting", "pruning", "deleting", "restoring"} \union Exporting

BackupManifest == [state : {"none", "cut", "whole"}, packages : SUBSET Packages]
BackupDir == [there : BOOLEAN, files : SUBSET Packages, manifest : BackupManifest]
BackupProgram == [pc : BackupSteps, id : Backup!Ids,
                  todo : SUBSET (Packages \union Backup!Ids), saved : SUBSET Packages]

BackupTyped ==
    /\ backups \in [Backup!Ids -> BackupDir]
    /\ second \in Backup!Ids
    /\ programs \in [Programs -> BackupProgram]
    /\ deleted \subseteq Backup!Ids

\* There is nothing before it is begun.
BegunByNow ==
    \A id \in Backup!Ids :
        /\ backups[id].there => id <= second
        /\ ~backups[id].there => backups[id].manifest.state # "whole"

Exports(p) == programs[p].pc \in Exporting
Target(p)  == programs[p].id

\* What is deleted, or is going to be.
Doomed == deleted \union {id \in Backup!Ids :
                             \E p \in Programs : programs[p].pc = "deleting" /\ id \in programs[p].todo}

ExportsApart ==
    \A p, q \in Programs : p # q /\ Exports(p) /\ Exports(q) => Target(p) # Target(q)

\* A program that exports, its record k and the directory b it writes to.
ExportFits(k, b) ==
    /\ b.there /\ b.manifest.state # "whole"
    /\ k.saved \subseteq b.files
    /\ k.pc = "exporting" => k.todo \intersect k.saved = {}

ExportsFit ==
    \A p \in Programs : Exports(p) =>
        ExportFits(programs[p], backups[Target(p)]) /\ Target(p) \notin Doomed

Outlived == \A id \in Doomed : \E n \in Backup!Listed : n > id

ListedIsWhole == \A id \in Backup!Listed \ deleted : Backup!Whole(id)

BackupInv ==
    BackupTyped /\ BegunByNow /\ ExportsApart /\ ExportsFit /\ Outlived /\ ListedIsWhole

\* A program that exports writes to its directory: it goes on to r, and the directory to b.
LEMMA ExporterWrites ==
    ASSUME BackupInv, NEW p \in Programs, Exports(p),
           NEW b \in BackupDir, backups' = [backups EXCEPT ![Target(p)] = b], b.there,
           NEW r \in BackupProgram, programs' = [programs EXCEPT ![p] = r],
           UNCHANGED <<second, deleted>>,
           \/ r.pc \in Exporting /\ r.id = Target(p) /\ ExportFits(r, b)
           \/ /\ r.pc \in {"waiting", "pruning"}
              /\ b.manifest.state = "whole" /\ b.manifest.packages \subseteq b.files
    PROVE  BackupInv'
  <1> DEFINE t == Target(p)
  <1>1. /\ t \in Backup!Ids /\ ExportFits(programs[p], backups[t])
        /\ backups[t].manifest.state # "whole" /\ t \notin Doomed /\ backups[t].there
    BY DEF BackupInv, BackupTyped, BackupProgram, ExportsFit, ExportFits, Target
  <1>2. /\ backups'[t] = b /\ \A id \in Backup!Ids : id # t => backups'[id] = backups[id]
        /\ programs'[p] = r /\ \A q \in Programs : q # p => programs'[q] = programs[q]
    BY <1>1 DEF BackupInv, BackupTyped
  <1>3. BackupTyped'
    BY <1>1 DEF BackupInv, BackupTyped
  <1>4. BegunByNow'
    BY <1>1, <1>2 DEF BackupInv, BegunByNow
  <1>5. Doomed' \subseteq Doomed
    BY <1>2 DEF Doomed, Exporting
  <1>6. ASSUME NEW q \in Programs, q # p, Exports(q) PROVE Target(q) # t
    BY <1>6 DEF BackupInv, ExportsApart
  <1>7. ExportsApart'
    BY <1>2, <1>6 DEF BackupInv, ExportsApart, Exports, Target, Exporting
  <1>8. ExportsFit'
    <2> SUFFICES ASSUME NEW q \in Programs, Exports(q)'
                 PROVE  (ExportFits(programs[q], backups[Target(q)]) /\ Target(q) \notin Doomed)'
      BY DEF ExportsFit
    <2>1. CASE q = p
      BY <1>1, <1>2, <1>5, <2>1 DEF Exports, Target, Exporting
    <2>2. CASE q # p
      <3>1. Exports(q) /\ programs'[q] = programs[q] /\ Target(q)' = Target(q)
        BY <1>2, <2>2 DEF Exports, Target
      <3>2. Target(q) # t /\ Target(q) \in Backup!Ids
        BY <1>6, <2>2, <3>1 DEF BackupInv, BackupTyped, BackupProgram, Target
      <3>3. backups'[Target(q)] = backups[Target(q)]
        BY <1>2, <3>2
      <3> QED BY <1>5, <3>1, <3>3 DEF BackupInv, ExportsFit
    <2> QED BY <2>1, <2>2
  <1>9. Backup!Listed \subseteq Backup!Listed' /\ Backup!Listed' \subseteq Backup!Listed \union {t}
    BY <1>1, <1>2 DEF Backup!Listed
  <1>10. Outlived'
    BY <1>5, <1>9 DEF BackupInv, Outlived
  <1>11. ListedIsWhole'
    <2> SUFFICES ASSUME NEW id \in (Backup!Listed \ deleted)' PROVE Backup!Whole(id)'
      BY DEF ListedIsWhole
    <2>1. CASE id = t
      BY <1>1, <1>2, <2>1 DEF Backup!Whole, Backup!Listed, ExportFits
    <2>2. CASE id # t
      <3>1. id \in Backup!Listed \ deleted /\ id \in Backup!Ids /\ backups'[id] = backups[id]
        BY <1>2, <1>9, <2>2 DEF Backup!Listed
      <3> QED BY <3>1 DEF BackupInv, ListedIsWhole, Backup!Whole
    <2> QED BY <2>1, <2>2
  <1> QED BY <1>3, <1>4, <1>7, <1>8, <1>10, <1>11 DEF BackupInv

\* A program that does not export goes on to r; no directory changes.
LEMMA ProgramGoesOn ==
    ASSUME BackupInv, NEW p \in Programs,
           NEW r \in BackupProgram, programs' = [programs EXCEPT ![p] = r],
           UNCHANGED <<backups, second, deleted>>,
           r.pc \notin Exporting,
           r.pc = "deleting" => \A id \in r.todo :
               \/ id \in Doomed
               \/ id \in Backup!Listed /\ \E n \in Backup!Listed : n > id
    PROVE  BackupInv'
  <1>1. programs'[p] = r /\ \A q \in Programs : q # p => programs'[q] = programs[q]
    BY DEF BackupInv, BackupTyped
  <1>2. BackupTyped'
    BY DEF BackupInv, BackupTyped
  <1>3. BegunByNow' /\ Backup!Listed' = Backup!Listed
    BY DEF BackupInv, BegunByNow, Backup!Listed
  <1>4. \A id \in Doomed' : \/ id \in Doomed
                            \/ id \in Backup!Listed /\ \E n \in Backup!Listed : n > id
    BY <1>1 DEF Doomed
  <1>5. \A q \in Programs : Exports(q)' => /\ Exports(q) /\ programs'[q] = programs[q]
                                           /\ Target(q)' = Target(q)
    BY <1>1 DEF Exports, Target
  <1>6. ExportsApart'
    BY <1>5 DEF BackupInv, ExportsApart
  <1>7. \A q \in Programs : Exports(q) => Target(q) \notin Backup!Listed
    BY DEF BackupInv, ExportsFit, ExportFits, Backup!Listed
  <1>8. ExportsFit'
    BY <1>4, <1>5, <1>7 DEF BackupInv, ExportsFit
  <1>9. Outlived'
    BY <1>3, <1>4 DEF BackupInv, Outlived
  <1>10. ListedIsWhole'
    BY <1>3 DEF BackupInv, ListedIsWhole, Backup!Whole
  <1> QED BY <1>2, <1>3, <1>6, <1>8, <1>9, <1>10 DEF BackupInv

\* A program that does nothing.
LEMMA WaitingFits ==
    ASSUME 1 \in Backup!Ids
    PROVE  /\ Backup!Waiting \in BackupProgram /\ Backup!Waiting.pc = "waiting"
           /\ Backup!Waiting.saved = {} /\ Backup!Waiting.todo = {}
  <1>1. "waiting" \in BackupSteps
    BY DEF BackupSteps
  <1>2. {} \in SUBSET Packages /\ {} \in SUBSET (Packages \union Backup!Ids)
    OBVIOUS
  <1> QED BY <1>1, <1>2 DEF BackupProgram, Backup!Waiting

LEMMA BeginKeeps ==
    ASSUME BackupInv, OneASecond, 1 \in Backup!Ids, NEW p \in Programs, NEW packages \in SUBSET Packages,
           Backup!Begin(p, packages)
    PROVE  BackupInv'
  <1> DEFINE b == [backups[second] EXCEPT !.there = TRUE]
             r == [Backup!Waiting EXCEPT !.pc = "exporting", !.id = second, !.todo = packages]
  <1>1. /\ programs[p].pc = "waiting" /\ ~backups[second].there
        /\ backups' = [backups EXCEPT ![second] = b]
        /\ programs' = [programs EXCEPT ![p] = r]
        /\ UNCHANGED <<second, deleted>>
    BY DEF Backup!Begin, Backup!Does, Backup!Changed
  <1>2. second \in Backup!Ids /\ backups[second] \in BackupDir
    BY DEF BackupInv, BackupTyped
  <1>3. b \in BackupDir /\ b.there /\ b.manifest = backups[second].manifest
    BY <1>2 DEF BackupDir
  <1>4. /\ r \in BackupProgram /\ r.pc = "exporting" /\ r.id = second /\ r.saved = {}
    <2>1. "exporting" \in BackupSteps /\ packages \in SUBSET (Packages \union Backup!Ids)
      BY DEF BackupSteps, Exporting
    <2> QED BY <1>2, <2>1, WaitingFits DEF BackupProgram
  <1> HIDE DEF b, r
  <1>5. backups[second].manifest.state # "whole"
    BY <1>1, <1>2 DEF BackupInv, BegunByNow
  <1>6. /\ backups'[second] = b /\ \A id \in Backup!Ids : id # second => backups'[id] = backups[id]
        /\ programs'[p] = r /\ \A q \in Programs : q # p => programs'[q] = programs[q]
    BY <1>1, <1>2 DEF BackupInv, BackupTyped
  <1>7. BackupTyped'
    BY <1>1, <1>2, <1>3, <1>4 DEF BackupInv, BackupTyped
  <1>8. BegunByNow'
    BY <1>1, <1>2, <1>3, <1>6 DEF BackupInv, BegunByNow, Backup!Ids
  <1>9. Backup!Listed' = Backup!Listed
    BY <1>3, <1>5, <1>6 DEF Backup!Listed
  <1>10. Doomed' \subseteq Doomed
    BY <1>1, <1>4, <1>6 DEF Doomed
  <1>11. second \notin Doomed
    <2> SUFFICES ASSUME second \in Doomed PROVE FALSE
      OBVIOUS
    <2>1. PICK n \in Backup!Listed : n > second
      BY DEF BackupInv, Outlived
    <2>2. n \in Backup!Ids /\ backups[n].there
      BY DEF Backup!Listed
    <2>3. n <= second
      BY <2>2 DEF BackupInv, BegunByNow
    <2> QED BY <1>2, <2>1, <2>2, <2>3 DEF Backup!Ids
  <1>12. \A q \in Programs : Exports(q) =>
             Target(q) \in Backup!Ids /\ Target(q) # second
    BY <1>1 DEF BackupInv, BackupTyped, BackupProgram, ExportsFit, ExportFits, Target
  <1>13. \A q \in Programs : q # p /\ Exports(q)' =>
             Exports(q) /\ programs'[q] = programs[q] /\ Target(q)' = Target(q)
    BY <1>6 DEF Exports, Target
  <1>14. Target(p)' = second
    BY <1>4, <1>6 DEF Target
  <1>15. ExportsApart'
    BY <1>12, <1>13, <1>14 DEF BackupInv, ExportsApart
  <1>16. ExportsFit'
    <2> SUFFICES ASSUME NEW q \in Programs, Exports(q)'
                 PROVE  (ExportFits(programs[q], backups[Target(q)]) /\ Target(q) \notin Doomed)'
      BY DEF ExportsFit
    <2>1. CASE q = p
      BY <1>3, <1>4, <1>5, <1>6, <1>10, <1>11, <1>14, <2>1 DEF ExportFits
    <2>2. CASE q # p
      <3>1. backups'[Target(q)] = backups[Target(q)]
        BY <1>6, <1>12, <1>13, <2>2
      <3> QED BY <1>10, <1>13, <2>2, <3>1 DEF BackupInv, ExportsFit
    <2> QED BY <2>1, <2>2
  <1>17. Outlived'
    BY <1>9, <1>10 DEF BackupInv, Outlived
  <1>18. ListedIsWhole'
    <2>1. \A id \in Backup!Listed : id \in Backup!Ids /\ backups'[id] = backups[id]
      BY <1>1, <1>6 DEF Backup!Listed
    <2> QED BY <1>1, <1>9, <2>1 DEF BackupInv, ListedIsWhole, Backup!Whole
  <1> QED BY <1>7, <1>8, <1>15, <1>16, <1>17, <1>18 DEF BackupInv

\* One package has been exported, or has not: the files and the list of what is saved follow.
LEMMA ExportedKeeps ==
    ASSUME BackupInv, NEW p \in Programs, NEW package \in Packages,
           NEW exported \in SUBSET Packages, NEW saved \in SUBSET Packages,
           Backup!Exported(p, package, exported, saved),
           \A x \in saved : x \in exported /\ (x \in programs[p].saved \/ x = package)
    PROVE  BackupInv'
  <1> DEFINE t == Target(p)
             b == [backups[t] EXCEPT !.files = exported]
             r == [programs[p] EXCEPT !.todo = @ \ {package}, !.saved = saved]
  <1>1. /\ programs[p].pc = "exporting" /\ package \in programs[p].todo
        /\ backups' = [backups EXCEPT ![t] = b]
        /\ programs' = [programs EXCEPT ![p] = r]
        /\ UNCHANGED <<second, deleted>>
    BY DEF Backup!Exported, Backup!Does, Backup!Changed, Target
  <1>2. Exports(p) /\ programs[p] \in BackupProgram /\ backups[t] \in BackupDir
    BY <1>1 DEF Exports, Exporting, BackupInv, BackupTyped, BackupProgram, Target
  <1>3. ExportFits(programs[p], backups[t])
    BY <1>2 DEF BackupInv, ExportsFit
  <1>4. /\ b \in BackupDir /\ b.there /\ b.manifest = backups[t].manifest /\ b.files = exported
    BY <1>2, <1>3 DEF BackupDir, ExportFits
  <1>5. /\ r \in BackupProgram /\ r.pc = "exporting" /\ r.id = t
        /\ r.saved = saved /\ r.todo = programs[p].todo \ {package}
    BY <1>1, <1>2 DEF BackupProgram, Target
  <1> HIDE DEF b, r
  <1>6. r.pc \in Exporting /\ ExportFits(r, b)
    BY <1>1, <1>3, <1>4, <1>5 DEF ExportFits, Exporting
  <1> HIDE DEF t
  <1> QED BY <1>1, <1>2, <1>4, <1>5, <1>6, ExporterWrites DEF t

LEMMA ExportKeeps ==
    ASSUME BackupInv, NEW p \in Programs, NEW package \in Packages,
           Backup!Export(p, package) \/ Backup!ExportFails(p, package)
    PROVE  BackupInv'
  <1> DEFINE t == Target(p)
  <1>1. Exports(p) /\ programs[p].pc = "exporting" /\ package \in programs[p].todo
    BY DEF Backup!Export, Backup!ExportFails, Backup!Exported, Backup!Does, Exports, Exporting
  <1>2. programs[p] \in BackupProgram /\ backups[t] \in BackupDir
    BY DEF BackupInv, BackupTyped, BackupProgram, Target
  <1>3. ExportFits(programs[p], backups[t])
    BY <1>1 DEF BackupInv, ExportsFit
  <1>4. backups[t].files \in SUBSET Packages /\ programs[p].saved \in SUBSET Packages
    BY <1>2 DEF BackupDir, BackupProgram
  <1>5. CASE Backup!Export(p, package)
    <2>1. Backup!Exported(p, package, backups[t].files \union {package},
                          programs[p].saved \union {package})
      BY <1>5 DEF Backup!Export, Target
    <2>2. \A x \in programs[p].saved \union {package} :
              /\ x \in backups[t].files \union {package}
              /\ x \in programs[p].saved \/ x = package
      BY <1>3 DEF ExportFits
    <2> QED BY <1>4, <2>1, <2>2, ExportedKeeps
  <1>6. CASE Backup!ExportFails(p, package)
    <2>1. Backup!Exported(p, package, backups[t].files \ {package}, programs[p].saved)
      BY <1>6 DEF Backup!ExportFails, Target
    <2>2. \A x \in programs[p].saved :
              /\ x \in backups[t].files \ {package}
              /\ x \in programs[p].saved \/ x = package
      BY <1>1, <1>3 DEF ExportFits
    <2> QED BY <1>4, <2>1, <2>2, ExportedKeeps
  <1> QED BY <1>5, <1>6

LEMMA OpenManifestKeeps ==
    ASSUME BackupInv, NEW p \in Programs, Backup!OpenManifest(p) PROVE BackupInv'
  <1> DEFINE t == Target(p)
             b == [backups[t] EXCEPT !.manifest = Backup!Cut]
             r == [programs[p] EXCEPT !.pc = "writing"]
  <1>1. /\ programs[p].pc = "exporting"
        /\ backups' = [backups EXCEPT ![t] = b]
        /\ programs' = [programs EXCEPT ![p] = r]
        /\ UNCHANGED <<second, deleted>>
    BY DEF Backup!OpenManifest, Backup!Does, Backup!Changed, Target
  <1>2. Exports(p) /\ programs[p] \in BackupProgram /\ backups[t] \in BackupDir
    BY <1>1 DEF Exports, Exporting, BackupInv, BackupTyped, BackupProgram, Target
  <1>3. ExportFits(programs[p], backups[t])
    BY <1>2 DEF BackupInv, ExportsFit
  <1>4. Backup!Cut \in BackupManifest /\ Backup!Cut.state = "cut"
    <2>1. {} \in SUBSET Packages
      OBVIOUS
    <2> QED BY <2>1 DEF BackupManifest, Backup!Cut
  <1>5. b \in BackupDir /\ b.there /\ b.manifest = Backup!Cut /\ b.files = backups[t].files
    BY <1>2, <1>3, <1>4 DEF BackupDir, ExportFits
  <1>6. /\ r \in BackupProgram /\ r.pc = "writing" /\ r.id = t /\ r.saved = programs[p].saved
    BY <1>2 DEF BackupProgram, BackupSteps, Exporting, Target
  <1> HIDE DEF b, r
  <1>7. r.pc \in Exporting /\ ExportFits(r, b)
    BY <1>3, <1>4, <1>5, <1>6 DEF ExportFits, Exporting
  <1> HIDE DEF t
  <1> QED BY <1>1, <1>2, <1>5, <1>6, <1>7, ExporterWrites DEF t

LEMMA WriteManifestKeeps ==
    ASSUME BackupInv, 1 \in Backup!Ids, NEW p \in Programs, NEW next \in {"waiting", "pruning"},
           Backup!WriteManifest(p, next)
    PROVE  BackupInv'
  <1> DEFINE t == Target(p)
             m == Backup!ManifestOf(programs[p].saved)
             b == [backups[t] EXCEPT !.manifest = m]
             r == [Backup!Waiting EXCEPT !.pc = next]
  <1>1. /\ programs[p].pc = "writing"
        /\ backups' = [backups EXCEPT ![t] = b]
        /\ programs' = [programs EXCEPT ![p] = r]
        /\ UNCHANGED <<second, deleted>>
    BY DEF Backup!WriteManifest, Backup!Does, Backup!Changed, Target
  <1>2. Exports(p) /\ programs[p] \in BackupProgram /\ backups[t] \in BackupDir
    BY <1>1 DEF Exports, Exporting, BackupInv, BackupTyped, BackupProgram, Target
  <1>3. ExportFits(programs[p], backups[t])
    BY <1>2 DEF BackupInv, ExportsFit
  <1>4. m \in BackupManifest /\ m.state = "whole" /\ m.packages = programs[p].saved
    BY <1>2 DEF BackupManifest, BackupProgram, Backup!ManifestOf
  <1> HIDE DEF m
  <1>5. b \in BackupDir /\ b.there /\ b.manifest = m /\ b.files = backups[t].files
    BY <1>2, <1>3, <1>4 DEF BackupDir, ExportFits
  <1>6. b.manifest.packages \subseteq b.files
    BY <1>3, <1>4, <1>5 DEF ExportFits
  <1>7. r \in BackupProgram /\ r.pc \in {"waiting", "pruning"}
    BY WaitingFits DEF BackupProgram, BackupSteps
  <1> HIDE DEF b, r
  <1> HIDE DEF t
  <1> QED BY <1>1, <1>2, <1>4, <1>5, <1>6, <1>7, ExporterWrites DEF t

LEMMA BeginPruneKeeps ==
    ASSUME BackupInv, 1 \in Backup!Ids, KeptBackups \in Nat \ {0}, NEW p \in Programs,
           Backup!BeginPrune(p)
    PROVE  BackupInv'
  <1> DEFINE r == [Backup!Waiting EXCEPT !.pc = "deleting", !.todo = Backup!Superfluous]
  <1>1. programs' = [programs EXCEPT ![p] = r] /\ UNCHANGED <<backups, second, deleted>>
    BY DEF Backup!BeginPrune
  <1>2. \A id \in Backup!Superfluous :
            /\ id \in Backup!Listed /\ id \in Backup!Ids
            /\ \E n \in Backup!Listed : n > id
    <2> SUFFICES ASSUME NEW id \in Backup!Superfluous PROVE \E n \in Backup!Listed : n > id
      BY DEF Backup!Superfluous, Backup!Listed
    <2>1. Backup!Cardinality({n \in Backup!Listed : n > id}) >= KeptBackups
      BY DEF Backup!Superfluous
    <2>2. Backup!Cardinality({}) = Cardinality({})
      BY Zenon DEF Backup!Cardinality, Cardinality
    <2>3. {n \in Backup!Listed : n > id} # {}
      BY <2>1, <2>2, FS_EmptySet
    <2> QED BY <2>3
  <1>3. r \in BackupProgram /\ r.pc = "deleting" /\ r.todo = Backup!Superfluous
    <2>1. "deleting" \in BackupSteps /\ Backup!Superfluous \in SUBSET (Packages \union Backup!Ids)
      BY <1>2 DEF BackupSteps
    <2> QED BY <2>1, WaitingFits DEF BackupProgram
  <1> HIDE DEF r
  <1>4. r.pc \notin Exporting
    BY <1>3 DEF Exporting
  <1> QED BY <1>1, <1>2, <1>3, <1>4, ProgramGoesOn

\* A program that stops: it is through, it fails, or it is killed.
LEMMA StopsKeeps ==
    ASSUME BackupInv, 1 \in Backup!Ids, NEW p \in Programs, Backup!Stops(p),
           UNCHANGED <<backups, second, deleted>>
    PROVE  BackupInv'
  <1>1. programs' = [programs EXCEPT ![p] = Backup!Waiting]
    BY DEF Backup!Stops
  <1>2. Backup!Waiting \in BackupProgram /\ Backup!Waiting.pc = "waiting"
    BY WaitingFits
  <1>3. Backup!Waiting.pc \notin Exporting /\ Backup!Waiting.pc # "deleting"
    BY <1>2 DEF Exporting
  <1> QED BY <1>1, <1>2, <1>3, ProgramGoesOn

LEMMA RestoreKeeps ==
    ASSUME BackupInv, 1 \in Backup!Ids, NEW p \in Programs,
           \/ \E id \in Backup!Ids : Backup!BeginRestore(p, id)
           \/ \E x \in Packages, ok \in BOOLEAN : Backup!Restore(p, x, ok)
    PROVE  BackupInv'
  <1>1. ASSUME NEW id \in Backup!Ids, Backup!BeginRestore(p, id) PROVE BackupInv'
    <2> DEFINE r == [Backup!Waiting EXCEPT !.pc = "restoring", !.id = id,
                                           !.todo = backups[id].manifest.packages]
    <2>1. programs' = [programs EXCEPT ![p] = r] /\ UNCHANGED <<backups, second, deleted>>
      BY <1>1 DEF Backup!BeginRestore
    <2>2. backups[id].manifest.packages \in SUBSET (Packages \union Backup!Ids)
      BY DEF BackupInv, BackupTyped, BackupDir, BackupManifest
    <2>3. "restoring" \in BackupSteps
      BY DEF BackupSteps
    <2>4. r \in BackupProgram /\ r.pc = "restoring"
      BY <2>2, <2>3, WaitingFits DEF BackupProgram
    <2> HIDE DEF r
    <2>5. r.pc \notin Exporting /\ r.pc # "deleting"
      BY <2>4 DEF Exporting
    <2> QED BY <2>1, <2>4, <2>5, ProgramGoesOn
  <1>2. ASSUME NEW x \in Packages, NEW ok \in BOOLEAN, Backup!Restore(p, x, ok) PROVE BackupInv'
    <2> DEFINE r == [programs[p] EXCEPT !.todo = @ \ {x}]
    <2>1. /\ programs[p].pc = "restoring"
          /\ programs' = [programs EXCEPT ![p] = r] /\ UNCHANGED <<backups, second, deleted>>
      BY <1>2 DEF Backup!Restore, Backup!Does
    <2>2. r \in BackupProgram /\ r.pc = "restoring"
      BY <2>1 DEF BackupInv, BackupTyped, BackupProgram
    <2> HIDE DEF r
    <2>3. r.pc \notin Exporting /\ r.pc # "deleting"
      BY <2>2 DEF Exporting
    <2> QED BY <2>1, <2>2, <2>3, ProgramGoesOn
  <1> QED BY <1>1, <1>2

LEMMA DeleteKeeps ==
    ASSUME BackupInv, 1 \in Backup!Ids, NEW p \in Programs, NEW id \in Backup!Ids,
           NEW left \in Backup!Remnants(id), Backup!Delete(p, id, left)
    PROVE  BackupInv'
  <1> DEFINE r == [programs[p] EXCEPT !.todo = @ \ {id}]
  <1>1. /\ programs[p].pc = "deleting" /\ id \in programs[p].todo
        /\ backups' = [backups EXCEPT ![id] = left]
        /\ deleted' = deleted \union {id}
        /\ programs' = [programs EXCEPT ![p] = r]
        /\ second' = second
    BY DEF Backup!Delete, Backup!Does, Backup!Changed
  <1>2. r \in BackupProgram /\ r.pc = "deleting" /\ r.todo = programs[p].todo \ {id}
    BY <1>1 DEF BackupInv, BackupTyped, BackupProgram
  <1> HIDE DEF r
  <1>3. /\ backups'[id] = left /\ \A o \in Backup!Ids : o # id => backups'[o] = backups[o]
        /\ programs'[p] = r /\ \A q \in Programs : q # p => programs'[q] = programs[q]
    BY <1>1 DEF BackupInv, BackupTyped
  <1>4. backups[id] \in BackupDir
    BY DEF BackupInv, BackupTyped
  <1>5. /\ left \in BackupDir
        /\ \/ ~left.there /\ left.manifest.state = "none"
           \/ left.there /\ left.manifest.state = "none"
           \/ left.there /\ left.manifest = backups[id].manifest
    <2>1. CASE left = Backup!NoBackup
      <3>1. {} \in SUBSET Packages
        OBVIOUS
      <3> QED BY <2>1, <3>1 DEF Backup!NoBackup, Backup!NoManifest, BackupDir, BackupManifest
    <2>2. CASE left \in [there : {TRUE}, files : SUBSET backups[id].files,
                         manifest : {Backup!NoManifest, backups[id].manifest}]
      <3>1. Backup!NoManifest \in BackupManifest /\ Backup!NoManifest.state = "none"
        <4>1. {} \in SUBSET Packages
          OBVIOUS
        <4> QED BY <4>1 DEF Backup!NoManifest, BackupManifest
      <3>2. left.there = TRUE /\ left.manifest \in {Backup!NoManifest, backups[id].manifest}
        BY <2>2
      <3>3. left \in BackupDir
        BY <1>4, <2>2, <3>1 DEF BackupDir
      <3> QED BY <3>1, <3>2, <3>3
    <2> QED BY <2>1, <2>2 DEF Backup!Remnants
  <1>6. id \in Doomed
    BY <1>1 DEF Doomed
  <1>7. PICK later \in Backup!Listed : later > id
    BY <1>6 DEF BackupInv, Outlived
  <1>8. later \in Backup!Ids /\ backups[later].there /\ later <= second
    BY DEF Backup!Listed, BackupInv, BegunByNow
  <1>9. id <= second
    BY <1>7, <1>8 DEF BackupInv, BackupTyped, Backup!Ids
  <1>10. BackupTyped'
    BY <1>1, <1>2, <1>5 DEF BackupInv, BackupTyped
  <1>11. BegunByNow'
    BY <1>1, <1>3, <1>5, <1>9 DEF BackupInv, BegunByNow
  <1>12. Doomed' \subseteq Doomed
    BY <1>1, <1>2, <1>3, <1>6 DEF Doomed
  <1>13. /\ Backup!Listed \subseteq Backup!Listed' \union {id}
         /\ Backup!Listed' \subseteq Backup!Listed
    <2>1. ASSUME NEW o \in Backup!Listed, o # id PROVE o \in Backup!Listed'
      BY <1>3, <2>1 DEF Backup!Listed
    <2>2. ASSUME NEW o \in Backup!Listed' PROVE o \in Backup!Listed
      <3>1. o \in Backup!Ids /\ backups'[o].there /\ backups'[o].manifest.state = "whole"
        BY DEF Backup!Listed
      <3>2. CASE o = id
        <4>1. backups[id].manifest.state = "whole"
          BY <1>3, <1>5, <3>1, <3>2
        <4>2. backups[id].there
          BY <1>4, <4>1 DEF BackupInv, BegunByNow, BackupDir
        <4> QED BY <3>2, <4>1, <4>2 DEF Backup!Listed
      <3>3. CASE o # id
        BY <1>3, <3>1, <3>3 DEF Backup!Listed
      <3> QED BY <3>2, <3>3
    <2> QED BY <2>1, <2>2
  <1>14. \A q \in Programs : Exports(q)' => /\ Exports(q) /\ programs'[q] = programs[q]
                                            /\ Target(q)' = Target(q)
    BY <1>2, <1>3 DEF Exports, Target, Exporting
  <1>15. ExportsApart'
    BY <1>14 DEF BackupInv, ExportsApart
  <1>16. ExportsFit'
    <2> SUFFICES ASSUME NEW q \in Programs, Exports(q)'
                 PROVE  (ExportFits(programs[q], backups[Target(q)]) /\ Target(q) \notin Doomed)'
      BY DEF ExportsFit
    <2>1. ExportFits(programs[q], backups[Target(q)]) /\ Target(q) \notin Doomed
      BY <1>14 DEF BackupInv, ExportsFit
    <2>2. Target(q) # id /\ Target(q) \in Backup!Ids
      BY <1>6, <2>1 DEF BackupInv, BackupTyped, BackupProgram, Target
    <2> QED BY <1>3, <1>12, <1>14, <2>1, <2>2
  <1>17. Outlived'
    <2> SUFFICES ASSUME NEW o \in Doomed PROVE \E n \in Backup!Listed' : n > o
      BY <1>12 DEF Outlived
    <2>1. PICK n \in Backup!Listed : n > o
      BY DEF BackupInv, Outlived
    <2>2. o \in Backup!Ids /\ n \in Backup!Ids
      BY DEF Doomed, BackupInv, BackupTyped, Backup!Listed
    <2>3. CASE n = id
      BY <1>7, <1>8, <1>13, <2>1, <2>2, <2>3 DEF Backup!Ids
    <2>4. CASE n # id
      BY <1>13, <2>1, <2>4
    <2> QED BY <2>3, <2>4
  <1>18. ListedIsWhole'
    <2> SUFFICES ASSUME NEW o \in (Backup!Listed \ deleted)' PROVE Backup!Whole(o)'
      BY DEF ListedIsWhole
    <2>1. o \in Backup!Listed \ deleted /\ o # id /\ o \in Backup!Ids
      BY <1>1, <1>13 DEF Backup!Listed
    <2>2. backups'[o] = backups[o]
      BY <1>3, <2>1
    <2> QED BY <2>1, <2>2 DEF BackupInv, ListedIsWhole, Backup!Whole
  <1> QED BY <1>10, <1>11, <1>15, <1>16, <1>17, <1>18 DEF BackupInv

LEMMA TickKeeps ==
    ASSUME BackupInv, Seconds \in Nat, Backup!Tick PROVE BackupInv'
  <1>1. /\ second < Seconds /\ second' = second + 1 /\ second \in Backup!Ids
        /\ UNCHANGED <<backups, programs, deleted>>
    BY DEF Backup!Tick, BackupInv, BackupTyped
  <1>2. second' \in Backup!Ids /\ \A id \in Backup!Ids : id <= second => id <= second'
    BY <1>1 DEF Backup!Ids
  <1>3. Doomed' = Doomed /\ Backup!Listed' = Backup!Listed
    BY <1>1 DEF Doomed, Backup!Listed
  <1>4. BackupTyped' /\ BegunByNow'
    BY <1>1, <1>2 DEF BackupInv, BackupTyped, BegunByNow
  <1>5. ExportsApart' /\ ExportsFit'
    BY <1>1, <1>3 DEF BackupInv, ExportsApart, ExportsFit, Exports, Target
  <1>6. Outlived' /\ ListedIsWhole'
    BY <1>1, <1>3 DEF BackupInv, Outlived, ListedIsWhole, Backup!Whole
  <1> QED BY <1>4, <1>5, <1>6 DEF BackupInv

LEMMA BackupStarts ==
    ASSUME 1 \in Backup!Ids, Backup!BackupInit PROVE BackupInv
  <1>1. /\ backups = [id \in Backup!Ids |-> Backup!NoBackup] /\ second = 1
        /\ programs = [p \in Programs |-> Backup!Waiting] /\ deleted = {}
    BY DEF Backup!BackupInit
  <1>2. Backup!NoBackup \in BackupDir /\ ~Backup!NoBackup.there
        /\ Backup!NoBackup.manifest.state # "whole"
    <2>1. {} \in SUBSET Packages
      OBVIOUS
    <2> QED BY <2>1 DEF Backup!NoBackup, Backup!NoManifest, BackupDir, BackupManifest
  <1>3. Backup!Waiting \in BackupProgram /\ Backup!Waiting.pc = "waiting"
    BY WaitingFits
  <1>4. BackupTyped /\ BegunByNow
    BY <1>1, <1>2, <1>3 DEF BackupTyped, BegunByNow
  <1>5. Doomed = {} /\ Backup!Listed = {} /\ \A p \in Programs : ~Exports(p)
    BY <1>1, <1>2, <1>3 DEF Doomed, Backup!Listed, Exports, Exporting
  <1> QED BY <1>4, <1>5 DEF BackupInv, ExportsApart, ExportsFit, Outlived, ListedIsWhole

LEMMA BackupKeeps ==
    ASSUME BackupInv, OneASecond, Seconds \in Nat \ {0}, KeptBackups \in Nat \ {0},
           Backup!BackupNext \/ UNCHANGED backupVars
    PROVE  BackupInv'
  <1>1. 1 \in Backup!Ids
    BY DEF Backup!Ids
  <1>2. ASSUME NEW p \in Programs, NEW packages \in SUBSET Packages, Backup!Begin(p, packages)
        PROVE  BackupInv'
    BY <1>1, <1>2, BeginKeeps
  <1>3. ASSUME NEW p \in Programs, NEW x \in Packages,
               Backup!Export(p, x) \/ Backup!ExportFails(p, x)
        PROVE  BackupInv'
    BY <1>3, ExportKeeps
  <1>4. ASSUME NEW p \in Programs, Backup!OpenManifest(p) PROVE BackupInv'
    BY <1>4, OpenManifestKeeps
  <1>5. ASSUME NEW p \in Programs, NEW next \in {"waiting", "pruning"},
               Backup!WriteManifest(p, next)
        PROVE  BackupInv'
    BY <1>1, <1>5, WriteManifestKeeps
  <1>6. ASSUME NEW p \in Programs, Backup!BeginPrune(p) PROVE BackupInv'
    BY <1>1, <1>6, BeginPruneKeeps
  <1>7. ASSUME NEW p \in Programs,
               Backup!NothingToPrune(p) \/ Backup!Pruned(p) \/ Backup!Restored(p) \/ Backup!Die(p)
        PROVE  BackupInv'
    <2>1. Backup!Stops(p) /\ UNCHANGED <<backups, second, deleted>>
      BY <1>7 DEF Backup!NothingToPrune, Backup!Pruned, Backup!Restored, Backup!Die
    <2> QED BY <1>1, <2>1, StopsKeeps
  <1>8. ASSUME NEW p \in Programs, NEW id \in Backup!Ids, NEW left \in Backup!Remnants(id),
               Backup!Delete(p, id, left)
        PROVE  BackupInv'
    BY <1>1, <1>8, DeleteKeeps
  <1>9. ASSUME NEW p \in Programs,
               \/ \E id \in Backup!Ids : Backup!BeginRestore(p, id)
               \/ \E x \in Packages, ok \in BOOLEAN : Backup!Restore(p, x, ok)
        PROVE  BackupInv'
    BY <1>1, <1>9, RestoreKeeps
  <1>10. CASE Backup!Tick
    BY <1>10, TickKeeps
  <1>11. CASE UNCHANGED backupVars
    BY <1>11 DEF backupVars, BackupInv, BackupTyped, BegunByNow, ExportsApart, ExportsFit,
                 Outlived, ListedIsWhole, Exports, Target, Doomed, Backup!Listed, Backup!Whole
  <1> QED BY <1>2, <1>3, <1>4, <1>5, <1>6, <1>7, <1>8, <1>9, <1>10, <1>11 DEF Backup!BackupNext

LEMMA LargestBackup ==
    ASSUME NEW N \in Nat, NEW S \in SUBSET (1 .. N), S # {}
    PROVE  \E m \in S : \A n \in S : n <= m
  <1> DEFINE T == {N - n : n \in S}
  <1>1. T \subseteq Nat /\ T # {}
    <2>1. \A n \in S : N - n \in Nat
      OBVIOUS
    <2> QED BY <2>1
  <1>2. PICK k \in T : \A j \in T : ~(<<j, k>> \in OpToRel(<, Nat))
    BY <1>1, NatLessThanWellFounded, WFMin, Zenon
  <1>3. \A j \in T : ~(j < k)
    BY <1>1, <1>2, Zenon DEF OpToRel
  <1>4. PICK m \in S : k = N - m
    OBVIOUS
  <1>5. ASSUME NEW n \in S PROVE n <= m
    <2>1. N - n \in T
      OBVIOUS
    <2>2. ~(N - n < N - m)
      BY <1>3, <1>4, <2>1
    <2> QED BY <2>2
  <1> QED BY <1>5

\* The last backup in the list is never one that a prune takes.
LEMMA OneIsLeft ==
    ASSUME BackupInv, Seconds \in Nat PROVE ListedCanBeRestored
  <1>1. ASSUME NEW o \in deleted PROVE \E id \in Backup!Ids \ deleted : Backup!Whole(id)
    <2>1. o \in Doomed
      BY DEF Doomed
    <2>2. Backup!Listed # {} /\ Backup!Listed \subseteq Backup!Ids
      BY <2>1 DEF BackupInv, Outlived, Backup!Listed
    <2>3. Backup!Listed \in SUBSET (1 .. Seconds)
      BY <2>2 DEF Backup!Ids
    <2>4. PICK last \in Backup!Listed : \A id \in Backup!Listed : id <= last
      BY <2>2, <2>3, LargestBackup
    <2>5. last \notin deleted
      BY <2>2, <2>3, <2>4 DEF BackupInv, Outlived, Doomed
    <2>6. Backup!Whole(last)
      BY <2>5 DEF BackupInv, ListedIsWhole
    <2> QED BY <2>2, <2>5, <2>6
  <1>2. \A id \in Backup!Listed \ deleted : Backup!Whole(id)
    BY DEF BackupInv, ListedIsWhole
  <1> QED BY <1>1, <1>2 DEF ListedCanBeRestored, Backup!ListedCanBeRestored

-----------------------------------------------------------------------------
(***************************************************************************)
(* The fixes.  A copy taken by a fix has a name of the second in which the *)
(* fix was begun, and later seconds have no copies yet.                    *)
(***************************************************************************)
Quarantining == {"moving", "copying", "copied"}
FixSteps == Quarantining \union
            {"none", "resetting", "copyingHosts", "hostsCopied", "writingHosts",
             "read", "noting", "noted"}

Texts  == HostsTexts \union {Fixes!Absent, Fixes!Piece, Fixes!Stock}
Noted  == Values \union {Fixes!Absent}
FixRecord == [pc : FixSteps, path : Paths \union {Fixes!Absent}, at : 1 .. MaxSecond,
              value : Noted, list : SUBSET Noted, edited : BOOLEAN]

FixTyped ==
    /\ files \in [Paths -> BOOLEAN]
    /\ quarantine \in [Fixes!Places -> Paths \union {Fixes!Absent, Fixes!Piece}]
    /\ hosts \in Texts
    /\ hostsCopies \in [1 .. MaxSecond -> Texts]
    /\ autostart \in Noted /\ noted \in SUBSET Noted
    /\ now \in 1 .. MaxSecond /\ used \in 0 .. MaxSecond /\ used <= now
    /\ fix \in FixRecord /\ overwritten \subseteq HostsTexts

\* No copy is of a second to come.
CopiesOfThePast ==
    /\ \A q \in Fixes!Places : q[1] > used => quarantine[q] = Fixes!Absent
    /\ \A t \in 1 .. MaxSecond : t > used => hostsCopies[t] = Fixes!Absent

\* What is true of the fix under way.
FixFits ==
    /\ fix.pc # "none" => fix.at = used
    /\ fix.pc \in Quarantining =>
           /\ fix.path \in Paths /\ files[fix.path]
           /\ quarantine[Fixes!Place] \in {Fixes!Absent, Fixes!Piece, fix.path}
    /\ fix.pc = "copied" => quarantine[Fixes!Place] = fix.path
    /\ fix.pc \in {"resetting", "copyingHosts"} => hostsCopies[fix.at] \notin HostsTexts
    /\ fix.pc = "hostsCopied" => (fix.edited \/ hostsCopies[fix.at] = hosts)

FixInv == FixTyped /\ CopiesOfThePast /\ FixFits /\ NothingIsDeleted

LEMMA PlacesHaveTwoParts ==
    ASSUME NEW p \in Paths, NEW t \in 1 .. MaxSecond
    PROVE  /\ <<t, Leaf[p]>> \in Fixes!Places /\ <<t, Leaf[p]>>[1] = t
  <1>1. Leaf[p] \in {Leaf[x] : x \in Paths}
    OBVIOUS
  <1> QED BY <1>1 DEF Fixes!Places

LEMMA NoFixIsARecord ==
    ASSUME MaxSecond \in Nat \ {0}
    PROVE  Fixes!NoFix \in FixRecord /\ Fixes!NoFix.pc = "none"
  <1>1. "none" \in FixSteps /\ Fixes!Absent \in Paths \union {Fixes!Absent}
    BY DEF FixSteps
  <1>2. /\ 1 \in 1 .. MaxSecond /\ Fixes!Absent \in Noted /\ {} \in SUBSET Noted
        /\ FALSE \in BOOLEAN
    BY DEF Noted
  <1> QED BY <1>1, <1>2 DEF FixRecord, Fixes!NoFix

\* The fix ends, and what it has changed stays within what is promised.
LEMMA FixEnds ==
    ASSUME FixInv, MaxSecond \in Nat \ {0}, fix' = Fixes!NoFix,
           UNCHANGED <<now, used, hostsCopies>>,
           files' \in [Paths -> BOOLEAN], hosts' \in Texts, autostart' \in Noted,
           UNCHANGED <<noted, overwritten>>,
           quarantine' \in [Fixes!Places -> Paths \union {Fixes!Absent, Fixes!Piece}],
           \A q \in Fixes!Places : quarantine'[q] = quarantine[q] \/ q[1] = used,
           \A p \in Paths : files'[p] \/ \E q \in Fixes!Places : quarantine'[q] = p
    PROVE  FixInv'
  <1>1. fix' \in FixRecord /\ fix'.pc = "none"
    BY NoFixIsARecord
  <1>2. FixTyped'
    BY <1>1 DEF FixInv, FixTyped
  <1>3. CopiesOfThePast'
    BY DEF FixInv, FixTyped, CopiesOfThePast
  <1>4. FixFits'
    BY <1>1 DEF FixFits, Quarantining
  <1>5. NothingIsDeleted'
    BY <1>1 DEF FixInv, NothingIsDeleted, Fixes!NothingIsDeleted
  <1> QED BY <1>2, <1>3, <1>4, <1>5 DEF FixInv

\* A fix begins, in a second of which there is no copy yet.
LEMMA FixBegins ==
    ASSUME FixInv, OneFixASecond, MaxSecond \in Nat \ {0},
           Fixes!Absent \notin HostsTexts,
           NEW new \in FixRecord, Fixes!Begins(new),
           new.pc \in {"moving", "resetting", "read"},
           new.pc = "moving" => new.path \in Paths /\ files[new.path],
           UNCHANGED <<files, quarantine, hosts, hostsCopies, autostart, noted, now, overwritten>>
    PROVE  FixInv'
  <1>1. fix' = [new EXCEPT !.at = now] /\ used' = now /\ used < now /\ now \in 1 .. MaxSecond
    BY DEF Fixes!Begins, FixInv, FixTyped
  <1>2. /\ fix' \in FixRecord /\ fix'.pc = new.pc /\ fix'.at = now /\ fix'.path = new.path
    BY <1>1 DEF FixRecord
  <1>3. FixTyped'
    BY <1>1, <1>2 DEF FixInv, FixTyped
  <1>4. CopiesOfThePast'
    BY <1>1 DEF FixInv, FixTyped, CopiesOfThePast, Fixes!Places
  <1>5. hostsCopies[now] = Fixes!Absent
    BY <1>1 DEF FixInv, CopiesOfThePast
  <1>6. CASE new.pc = "moving"
    <2>1. Fixes!Place' = <<now, Leaf[new.path]>>
      BY <1>2 DEF Fixes!Place
    <2>2. quarantine'[Fixes!Place'] = Fixes!Absent
      BY <1>1, <1>6, <2>1, PlacesHaveTwoParts DEF FixInv, CopiesOfThePast
    <2>3. FixFits'
      BY <1>1, <1>2, <1>6, <2>2 DEF FixFits, Quarantining
    <2> QED BY <1>2, <1>3, <1>4, <1>6, <2>3
            DEF FixInv, NothingIsDeleted, Fixes!NothingIsDeleted
  <1>7. CASE new.pc # "moving"
    <2>1. FixFits'
      BY <1>1, <1>2, <1>5, <1>7 DEF FixFits, Quarantining
    <2> QED BY <1>2, <1>3, <1>4, <2>1
            DEF FixInv, NothingIsDeleted, Fixes!NothingIsDeleted
  <1> QED BY <1>6, <1>7

\* The place a file is moved to is one of the quarantine, and holds no other file.
LEMMA ThePlace ==
    ASSUME FixInv, fix.pc \in Quarantining,
           Fixes!Absent \notin Paths, Fixes!Piece \notin Paths
    PROVE  /\ Fixes!Place \in Fixes!Places /\ Fixes!Place[1] = used
           /\ fix.path \in Paths /\ files[fix.path] /\ fix.at = used
           /\ \A p \in Paths : p # fix.path => quarantine[Fixes!Place] # p
  <1>1. fix.path \in Paths /\ files[fix.path] /\ fix.at = used /\ fix.at \in 1 .. MaxSecond
    BY DEF FixInv, FixTyped, FixFits, FixRecord, Quarantining
  <1>2. Fixes!Place \in Fixes!Places /\ Fixes!Place[1] = used
    BY <1>1, PlacesHaveTwoParts DEF Fixes!Place
  <1>3. quarantine[Fixes!Place] \in {Fixes!Absent, Fixes!Piece, fix.path}
    BY DEF FixInv, FixFits
  <1> QED BY <1>1, <1>2, <1>3

LEMMA MoveKeeps ==
    ASSUME FixInv, MaxSecond \in Nat \ {0}, Fixes!Absent \notin Paths, Fixes!Piece \notin Paths,
           Fixes!Move \/ Fixes!RemoveOriginal
    PROVE  FixInv'
  <1>1. /\ fix.pc \in {"moving", "copied"}
        /\ files' = [files EXCEPT ![fix.path] = FALSE]
        /\ quarantine' = [quarantine EXCEPT ![Fixes!Place] = fix.path]
        /\ fix' = Fixes!NoFix
        /\ UNCHANGED <<hosts, hostsCopies, autostart, noted, now, used, overwritten>>
    <2>1. CASE Fixes!Move
      BY <2>1 DEF Fixes!Move, Fixes!Is
    <2>2. CASE Fixes!RemoveOriginal
      <3>1. quarantine[Fixes!Place] = fix.path
        BY <2>2 DEF Fixes!RemoveOriginal, Fixes!Is, FixInv, FixFits
      <3>2. quarantine = [quarantine EXCEPT ![Fixes!Place] = fix.path]
        BY <3>1 DEF FixInv, FixTyped
      <3> QED BY <2>2, <3>2 DEF Fixes!RemoveOriginal, Fixes!Is
    <2> QED BY <2>1, <2>2
  <1>2. /\ Fixes!Place \in Fixes!Places /\ Fixes!Place[1] = used
        /\ fix.path \in Paths
        /\ \A p \in Paths : p # fix.path => quarantine[Fixes!Place] # p
    BY <1>1, ThePlace DEF Quarantining
  <1>3. /\ quarantine' \in [Fixes!Places -> Paths \union {Fixes!Absent, Fixes!Piece}]
        /\ quarantine'[Fixes!Place] = fix.path
        /\ \A q \in Fixes!Places : q # Fixes!Place => quarantine'[q] = quarantine[q]
    BY <1>1, <1>2 DEF FixInv, FixTyped
  <1>4. /\ files' \in [Paths -> BOOLEAN]
        /\ \A p \in Paths : p # fix.path => files'[p] = files[p]
    BY <1>1, <1>2 DEF FixInv, FixTyped
  <1>5. ASSUME NEW p \in Paths PROVE files'[p] \/ \E q \in Fixes!Places : quarantine'[q] = p
    <2>1. CASE p = fix.path
      BY <1>2, <1>3, <2>1
    <2>2. CASE p # fix.path
      <3>1. files[p] \/ \E q \in Fixes!Places : quarantine[q] = p
        BY DEF FixInv, NothingIsDeleted, Fixes!NothingIsDeleted
      <3> QED BY <1>2, <1>3, <1>4, <2>2, <3>1
    <2> QED BY <2>1, <2>2
  <1>6. hosts' \in Texts /\ autostart' \in Noted
    BY <1>1 DEF FixInv, FixTyped
  <1>7. \A q \in Fixes!Places : quarantine'[q] = quarantine[q] \/ q[1] = used
    BY <1>2, <1>3
  <1>8. UNCHANGED <<now, used, hostsCopies>> /\ UNCHANGED <<noted, overwritten>>
    BY <1>1
  <1> QED BY <1>1, <1>3, <1>4, <1>5, <1>6, <1>7, <1>8, FixEnds

LEMMA CopyKeeps ==
    ASSUME FixInv, Fixes!Absent \notin Paths, Fixes!Piece \notin Paths,
           Fixes!BeginCopy \/ Fixes!EndCopy
    PROVE  FixInv'
  <1>1. PICK text \in {Fixes!Piece, fix.path}, pc \in {"copying", "copied"} :
            /\ quarantine' = [quarantine EXCEPT ![Fixes!Place] = text]
            /\ fix' = [fix EXCEPT !.pc = pc] /\ (pc = "copied" => text = fix.path)
    BY DEF Fixes!BeginCopy, Fixes!EndCopy, Fixes!Continue
  <1>2. /\ fix.pc \in Quarantining
        /\ UNCHANGED <<files, hosts, hostsCopies, autostart, noted, now, used, overwritten>>
    BY DEF Fixes!BeginCopy, Fixes!EndCopy, Fixes!Is, Quarantining
  <1>3. /\ Fixes!Place \in Fixes!Places /\ Fixes!Place[1] = used
        /\ fix.path \in Paths /\ files[fix.path] /\ fix.at = used
        /\ \A p \in Paths : p # fix.path => quarantine[Fixes!Place] # p
    BY <1>2, ThePlace
  <1>4. /\ fix' \in FixRecord /\ fix'.pc = pc /\ fix'.path = fix.path /\ fix'.at = fix.at
    BY <1>1 DEF FixInv, FixTyped, FixRecord, FixSteps, Quarantining
  <1>5. Fixes!Place' = Fixes!Place
    BY <1>4 DEF Fixes!Place
  <1>6. /\ quarantine' \in [Fixes!Places -> Paths \union {Fixes!Absent, Fixes!Piece}]
        /\ quarantine'[Fixes!Place] = text
        /\ \A q \in Fixes!Places : q # Fixes!Place => quarantine'[q] = quarantine[q]
    BY <1>1, <1>3 DEF FixInv, FixTyped
  <1>7. FixTyped'
    BY <1>2, <1>4, <1>6 DEF FixInv, FixTyped
  <1>8. CopiesOfThePast'
    <2>1. \A q \in Fixes!Places : q[1] > used => q # Fixes!Place
      BY <1>3 DEF FixInv, FixTyped
    <2> QED BY <1>2, <1>6, <2>1 DEF FixInv, CopiesOfThePast
  <1>9. FixFits'
    BY <1>1, <1>2, <1>3, <1>4, <1>5, <1>6 DEF FixFits, Quarantining
  <1>10. NothingIsDeleted'
    <2>1. ASSUME NEW p \in Paths PROVE files'[p] \/ \E q \in Fixes!Places : quarantine'[q] = p
      <3>1. files[p] \/ \E q \in Fixes!Places : quarantine[q] = p
        BY DEF FixInv, NothingIsDeleted, Fixes!NothingIsDeleted
      <3> QED BY <1>2, <1>3, <1>6, <3>1
    <2>2. \A text1 \in overwritten' : \E t \in 1 .. MaxSecond : hostsCopies'[t] = text1
      BY <1>2 DEF FixInv, NothingIsDeleted, Fixes!NothingIsDeleted
    <2> QED BY <1>1, <1>4, <2>1, <2>2 DEF NothingIsDeleted, Fixes!NothingIsDeleted
  <1> QED BY <1>7, <1>8, <1>9, <1>10 DEF FixInv

\* A step of the reset of the hosts file or of the removal of a value, which touches no file:
\* the fix goes on to another step of the same kind.
LEMMA FixGoesOn ==
    ASSUME FixInv, NEW pc \in FixSteps \ Quarantining,
           fix.pc # "none", fix'.pc = pc, fix' \in FixRecord, fix'.at = fix.at,
           UNCHANGED <<files, quarantine, now, used, autostart>>,
           hosts' \in Texts, noted' \in SUBSET Noted,
           hostsCopies' \in [1 .. MaxSecond -> Texts],
           \A t \in 1 .. MaxSecond : t # used => hostsCopies'[t] = hostsCopies[t],
           FixFits', overwritten' \subseteq HostsTexts,
           \A text \in overwritten' : \E t \in 1 .. MaxSecond : hostsCopies'[t] = text
    PROVE  FixInv'
  <1>1. FixTyped'
    BY DEF FixInv, FixTyped
  <1>2. CopiesOfThePast'
    BY DEF FixInv, FixTyped, CopiesOfThePast
  <1>3. NothingIsDeleted'
    BY DEF FixInv, NothingIsDeleted, Fixes!NothingIsDeleted
  <1> QED BY <1>1, <1>2, <1>3 DEF FixInv

LEMMA HostsCopyKeeps ==
    ASSUME FixInv, Fixes!Piece \notin HostsTexts, Fixes!BeginHostsCopy \/ Fixes!EndHostsCopy
    PROVE  FixInv'
  <1>1. PICK text \in {Fixes!Piece, hosts}, pc \in {"copyingHosts", "hostsCopied"} :
            /\ hostsCopies' = [hostsCopies EXCEPT ![fix.at] = text]
            /\ fix' = [fix EXCEPT !.pc = pc]
            /\ text = IF pc = "copyingHosts" THEN Fixes!Piece ELSE hosts
    BY DEF Fixes!BeginHostsCopy, Fixes!EndHostsCopy, Fixes!Continue
  <1>2. /\ fix.pc \in {"resetting", "copyingHosts"}
        /\ UNCHANGED <<files, quarantine, hosts, autostart, noted, now, used, overwritten>>
    BY DEF Fixes!BeginHostsCopy, Fixes!EndHostsCopy, Fixes!Is
  <1>3. fix.at = used /\ hostsCopies[used] \notin HostsTexts /\ used \in 1 .. MaxSecond
    BY <1>2 DEF FixInv, FixFits, FixTyped, FixRecord
  <1>4. /\ fix' \in FixRecord /\ fix'.pc = pc /\ fix'.at = used
    BY <1>1, <1>3 DEF FixInv, FixTyped, FixRecord, FixSteps
  <1>5. /\ hostsCopies' \in [1 .. MaxSecond -> Texts] /\ hostsCopies'[used] = text
        /\ \A t \in 1 .. MaxSecond : t # used => hostsCopies'[t] = hostsCopies[t]
    BY <1>1, <1>3 DEF FixInv, FixTyped, Texts
  <1>6. FixFits'
    BY <1>1, <1>2, <1>4, <1>5 DEF FixFits, Quarantining
  <1>7. ASSUME NEW text1 \in overwritten'
        PROVE  \E t \in 1 .. MaxSecond : hostsCopies'[t] = text1
    <2>1. PICK t \in 1 .. MaxSecond : hostsCopies[t] = text1
      BY <1>2 DEF FixInv, NothingIsDeleted, Fixes!NothingIsDeleted
    <2>2. text1 \in HostsTexts
      BY <1>2 DEF FixInv, FixTyped
    <2> QED BY <1>3, <1>5, <2>1, <2>2
  <1>8. pc \in FixSteps \ Quarantining /\ fix.pc # "none"
    BY <1>2 DEF FixSteps, Quarantining
  <1>9. /\ hosts' \in Texts /\ noted' \in SUBSET Noted /\ fix'.at = fix.at
        /\ overwritten' \subseteq HostsTexts
    BY <1>2, <1>3, <1>4 DEF FixInv, FixTyped
  <1> QED BY <1>2, <1>4, <1>5, <1>6, <1>7, <1>8, <1>9, FixGoesOn

LEMMA TruncateHostsKeeps ==
    ASSUME FixInv, Fixes!TruncateHosts PROVE FixInv'
  <1>1. /\ fix.pc = "hostsCopied" /\ fix' = [fix EXCEPT !.pc = "writingHosts"]
        /\ overwritten' =
               overwritten \union {text \in HostsTexts : ~fix.edited /\ text = hosts}
        /\ hosts' = Fixes!Piece
        /\ UNCHANGED <<files, quarantine, hostsCopies, autostart, noted, now, used>>
    BY DEF Fixes!TruncateHosts, Fixes!Is, Fixes!Continue
  <1>2. /\ fix.at = used /\ used \in 1 .. MaxSecond
        /\ fix.edited \/ hostsCopies[used] = hosts
    BY <1>1 DEF FixInv, FixFits, FixTyped, FixRecord
  <1>3. /\ fix' \in FixRecord /\ fix'.pc = "writingHosts" /\ fix'.at = used
    BY <1>1, <1>2 DEF FixInv, FixTyped, FixRecord, FixSteps
  <1>4. FixFits'
    BY <1>1, <1>3 DEF FixFits, Quarantining
  <1>5. ASSUME NEW text \in overwritten' PROVE \E t \in 1 .. MaxSecond : hostsCopies'[t] = text
    BY <1>1, <1>2 DEF FixInv, NothingIsDeleted, Fixes!NothingIsDeleted
  <1>6. /\ hosts' \in Texts /\ noted' \in SUBSET Noted /\ fix'.at = fix.at
        /\ overwritten' \subseteq HostsTexts /\ hostsCopies' \in [1 .. MaxSecond -> Texts]
    BY <1>1, <1>2, <1>3 DEF FixInv, FixTyped, Texts
  <1>7. "writingHosts" \in FixSteps \ Quarantining /\ fix.pc # "none"
    BY <1>1 DEF FixSteps, Quarantining
  <1> QED BY <1>1, <1>3, <1>4, <1>5, <1>6, <1>7, FixGoesOn

LEMMA NotesKeep ==
    ASSUME FixInv, Fixes!OpenNotes \/ Fixes!WriteNotes PROVE FixInv'
  <1>1. UNCHANGED <<files, quarantine, hosts, hostsCopies, autostart, now, used, overwritten>>
    BY DEF Fixes!OpenNotes, Fixes!WriteNotes
  <1>2. /\ hosts' \in Texts /\ overwritten' \subseteq HostsTexts
        /\ hostsCopies' \in [1 .. MaxSecond -> Texts]
    BY <1>1 DEF FixInv, FixTyped
  <1>3. ASSUME NEW text \in overwritten' PROVE \E t \in 1 .. MaxSecond : hostsCopies'[t] = text
    BY <1>1 DEF FixInv, NothingIsDeleted, Fixes!NothingIsDeleted
  <1>4. CASE Fixes!OpenNotes
    <2>1. /\ fix.pc = "read" /\ noted' = {}
          /\ fix' = [fix EXCEPT !.pc = "noting", !.list = noted \union {fix.value}]
      BY <1>4 DEF Fixes!OpenNotes, Fixes!Is
    <2>2. noted \union {fix.value} \in SUBSET Noted
      BY DEF FixInv, FixTyped, FixRecord
    <2>3. "noting" \in FixSteps \ Quarantining /\ fix.pc # "none"
      BY <2>1 DEF FixSteps, Quarantining
    <2>4. /\ fix' \in FixRecord /\ fix'.pc = "noting" /\ fix'.at = fix.at
      BY <2>1, <2>2, <2>3 DEF FixInv, FixTyped, FixRecord
    <2>5. FixFits'
      BY <1>1, <2>3, <2>4 DEF FixInv, FixFits, Quarantining
    <2>6. noted' \in SUBSET Noted
      BY <2>1
    <2> QED BY <1>1, <1>2, <1>3, <2>3, <2>4, <2>5, <2>6, FixGoesOn
  <1>5. CASE Fixes!WriteNotes
    <2>1. /\ fix.pc = "noting" /\ noted' = fix.list
          /\ fix' = [fix EXCEPT !.pc = "noted"]
      BY <1>5 DEF Fixes!WriteNotes, Fixes!Is, Fixes!Continue
    <2>2. "noted" \in FixSteps \ Quarantining /\ fix.pc # "none"
      BY <2>1 DEF FixSteps, Quarantining
    <2>3. /\ fix' \in FixRecord /\ fix'.pc = "noted" /\ fix'.at = fix.at
      BY <2>1, <2>2 DEF FixInv, FixTyped, FixRecord
    <2>4. FixFits'
      BY <1>1, <2>2, <2>3 DEF FixInv, FixFits, Quarantining
    <2>5. noted' \in SUBSET Noted
      BY <2>1 DEF FixInv, FixTyped, FixRecord
    <2> QED BY <1>1, <1>2, <1>3, <2>2, <2>3, <2>4, <2>5, FixGoesOn
  <1> QED BY <1>4, <1>5

\* What ends a fix and touches no file: the hosts file is whole again, the value is removed,
\* or the fix has failed.
LEMMA EndsKeep ==
    ASSUME FixInv, MaxSecond \in Nat \ {0},
           Fixes!WriteHosts \/ Fixes!RemoveValue \/ Fixes!FixFails
    PROVE  FixInv'
  <1>1. /\ fix' = Fixes!NoFix
        /\ UNCHANGED <<now, used, hostsCopies>> /\ UNCHANGED <<noted, overwritten>>
        /\ UNCHANGED <<files, quarantine>>
        /\ hosts' \in {hosts, Fixes!Stock} /\ autostart' \in {autostart, Fixes!Absent}
    BY DEF Fixes!WriteHosts, Fixes!RemoveValue, Fixes!FixFails
  <1>2. /\ hosts' \in Texts /\ autostart' \in Noted
        /\ files' \in [Paths -> BOOLEAN]
        /\ quarantine' \in [Fixes!Places -> Paths \union {Fixes!Absent, Fixes!Piece}]
    BY <1>1 DEF FixInv, FixTyped, Texts, Noted
  <1>3. /\ \A q \in Fixes!Places : quarantine'[q] = quarantine[q] \/ q[1] = used
        /\ \A p \in Paths : files'[p] \/ \E q \in Fixes!Places : quarantine'[q] = p
    BY <1>1 DEF FixInv, NothingIsDeleted, Fixes!NothingIsDeleted
  <1> QED BY <1>1, <1>2, <1>3, FixEnds

\* The user edits hosts or sets the value again, also while a fix is under way; and the clock.
LEMMA OthersKeep ==
    ASSUME FixInv, MaxSecond \in Nat \ {0},
           \/ \E text \in HostsTexts : Fixes!EditHosts(text)
           \/ \E v \in Values : Fixes!SetValue(v)
           \/ Fixes!SecondPasses
    PROVE  FixInv'
  <1>1. UNCHANGED <<files, quarantine, hostsCopies, noted, used, overwritten>>
    BY DEF Fixes!EditHosts, Fixes!SetValue, Fixes!SecondPasses
  <1>2. /\ hosts' \in Texts /\ autostart' \in Noted
        /\ now' \in 1 .. MaxSecond /\ used' <= now'
    BY DEF Fixes!EditHosts, Fixes!SetValue, Fixes!SecondPasses, FixInv, FixTyped, Texts, Noted
  <1>3. /\ fix' \in FixRecord /\ fix'.pc = fix.pc /\ fix'.path = fix.path /\ fix'.at = fix.at
        /\ fix.pc = "hostsCopied" => fix'.edited \/ (fix'.edited = fix.edited /\ hosts' = hosts)
    <2>1. CASE \E text \in HostsTexts : Fixes!EditHosts(text)
      <3>1. fix' = [fix EXCEPT !.edited = fix # Fixes!NoFix]
        BY <2>1 DEF Fixes!EditHosts
      <3>2. fix # Fixes!NoFix \/ fix.pc # "hostsCopied"
        BY DEF Fixes!NoFix
      <3> QED BY <3>1, <3>2 DEF FixInv, FixTyped, FixRecord
    <2>2. CASE fix' = fix /\ hosts' = hosts
      BY <2>2 DEF FixInv, FixTyped
    <2> QED BY <2>1, <2>2 DEF Fixes!SetValue, Fixes!SecondPasses
  <1>4. FixTyped' /\ CopiesOfThePast'
    BY <1>1, <1>2, <1>3 DEF FixInv, FixTyped, CopiesOfThePast
  <1>5. Fixes!Place' = Fixes!Place
    BY <1>3 DEF Fixes!Place
  <1>6. FixFits'
    BY <1>1, <1>3, <1>5 DEF FixInv, FixFits, Quarantining
  <1>7. NothingIsDeleted'
    BY <1>1 DEF FixInv, NothingIsDeleted, Fixes!NothingIsDeleted
  <1> QED BY <1>4, <1>6, <1>7 DEF FixInv

LEMMA FixBeginsKeep ==
    ASSUME FixInv, OneFixASecond, MaxSecond \in Nat \ {0}, Fixes!Absent \notin HostsTexts,
           \/ \E p \in Paths : Fixes!BeginQuarantine(p)
           \/ Fixes!BeginReset
           \/ \E read \in {autostart, Fixes!Absent} : Fixes!ReadValue(read)
    PROVE  FixInv'
  <1>1. UNCHANGED <<files, quarantine, hosts, hostsCopies, autostart, noted, now, overwritten>>
    BY DEF Fixes!BeginQuarantine, Fixes!BeginReset, Fixes!ReadValue
  <1>2. ASSUME NEW p \in Paths, Fixes!BeginQuarantine(p) PROVE FixInv'
    <2> DEFINE new == [Fixes!NoFix EXCEPT !.pc = "moving", !.path = p]
    <2>1. Fixes!Begins(new) /\ files[p]
      BY <1>2 DEF Fixes!BeginQuarantine
    <2>2. "moving" \in FixSteps
      BY DEF FixSteps, Quarantining
    <2>3. new \in FixRecord /\ new.pc = "moving" /\ new.path = p
      BY <2>2, NoFixIsARecord DEF FixRecord
    <2> HIDE DEF new
    <2> QED BY <1>1, <2>1, <2>3, FixBegins
  <1>3. CASE Fixes!BeginReset
    <2> DEFINE new == [Fixes!NoFix EXCEPT !.pc = "resetting"]
    <2>1. Fixes!Begins(new)
      BY <1>3 DEF Fixes!BeginReset
    <2>2. "resetting" \in FixSteps
      BY DEF FixSteps
    <2>3. new \in FixRecord /\ new.pc = "resetting"
      BY <2>2, NoFixIsARecord DEF FixRecord
    <2> HIDE DEF new
    <2> QED BY <1>1, <2>1, <2>3, FixBegins
  <1>4. ASSUME NEW read \in {autostart, Fixes!Absent}, Fixes!ReadValue(read) PROVE FixInv'
    <2> DEFINE new == [Fixes!NoFix EXCEPT !.pc = "read", !.value = read]
    <2>1. Fixes!Begins(new)
      BY <1>4 DEF Fixes!ReadValue
    <2>2. "read" \in FixSteps /\ read \in Noted
      BY DEF FixSteps, FixInv, FixTyped, Noted
    <2>3. new \in FixRecord /\ new.pc = "read"
      BY <2>2, NoFixIsARecord DEF FixRecord
    <2> HIDE DEF new
    <2> QED BY <1>1, <2>1, <2>3, FixBegins
  <1> QED BY <1>2, <1>3, <1>4

LEMMA FixStarts ==
    ASSUME MaxSecond \in Nat \ {0}, Fixes!FixInit PROVE FixInv
  <1>1. /\ files = [p \in Paths |-> TRUE]
        /\ quarantine = [q \in Fixes!Places |-> Fixes!Absent]
        /\ hosts \in HostsTexts \union {Fixes!Stock}
        /\ hostsCopies = [t \in 1 .. MaxSecond |-> Fixes!Absent]
        /\ autostart \in Noted /\ noted = {}
        /\ now = 1 /\ used = 0 /\ fix = Fixes!NoFix /\ overwritten = {}
    BY DEF Fixes!FixInit, Noted
  <1>2. fix \in FixRecord /\ fix.pc = "none"
    BY <1>1, NoFixIsARecord
  <1>3. FixTyped
    BY <1>1, <1>2 DEF FixTyped, Texts
  <1>4. CopiesOfThePast /\ FixFits
    BY <1>1, <1>2 DEF CopiesOfThePast, FixFits, Quarantining
  <1>5. NothingIsDeleted
    BY <1>1, <1>2 DEF NothingIsDeleted, Fixes!NothingIsDeleted
  <1> QED BY <1>3, <1>4, <1>5 DEF FixInv

LEMMA FixKeeps ==
    ASSUME FixInv, OneFixASecond, MaxSecond \in Nat \ {0},
           {Fixes!Absent, Fixes!Piece} \intersect (Paths \union HostsTexts) = {},
           Fixes!FixNext \/ UNCHANGED fixVars
    PROVE  FixInv'
  <1>1. /\ Fixes!Absent \notin Paths /\ Fixes!Piece \notin Paths
        /\ Fixes!Absent \notin HostsTexts /\ Fixes!Piece \notin HostsTexts
    OBVIOUS
  <1>2. CASE \/ \E p \in Paths : Fixes!BeginQuarantine(p)
             \/ Fixes!BeginReset
             \/ \E read \in {autostart, Fixes!Absent} : Fixes!ReadValue(read)
    BY <1>1, <1>2, FixBeginsKeep
  <1>3. CASE Fixes!Move \/ Fixes!RemoveOriginal
    BY <1>1, <1>3, MoveKeeps
  <1>4. CASE Fixes!BeginCopy \/ Fixes!EndCopy
    BY <1>1, <1>4, CopyKeeps
  <1>5. CASE Fixes!BeginHostsCopy \/ Fixes!EndHostsCopy
    BY <1>1, <1>5, HostsCopyKeeps
  <1>6. CASE Fixes!TruncateHosts
    BY <1>6, TruncateHostsKeeps
  <1>7. CASE Fixes!OpenNotes \/ Fixes!WriteNotes
    BY <1>7, NotesKeep
  <1>8. CASE Fixes!WriteHosts \/ Fixes!RemoveValue \/ Fixes!FixFails
    BY <1>8, EndsKeep
  <1>9. CASE \/ \E text \in HostsTexts : Fixes!EditHosts(text)
             \/ \E v \in Values : Fixes!SetValue(v)
             \/ Fixes!SecondPasses
    BY <1>9, OthersKeep
  <1>10. CASE UNCHANGED fixVars
    <2>1. UNCHANGED <<files, quarantine, hosts, hostsCopies, autostart, noted, now, used, fix,
                      overwritten>>
      BY <1>10 DEF fixVars
    <2>2. Fixes!Place' = Fixes!Place
      BY <2>1 DEF Fixes!Place
    <2> QED BY <2>1, <2>2 DEF FixInv, FixTyped, CopiesOfThePast, FixFits, NothingIsDeleted,
                              Fixes!NothingIsDeleted, Fixes!Is
  <1> QED BY <1>2, <1>3, <1>4, <1>5, <1>6, <1>7, <1>8, <1>9, <1>10 DEF Fixes!FixNext

-----------------------------------------------------------------------------
(***************************************************************************)
(* The startup page.  What is kept of an entry never loses what it says to *)
(* start, unless a write is cut off, and a row of an entry that was turned *)
(* off stays on the list.                                                  *)
(***************************************************************************)
OneKindEach ==
    /\ Keys \intersect Shortcuts = {} /\ Keys \intersect Desktops = {}
    /\ Keys \intersect Agents = {} /\ Shortcuts \intersect Desktops = {}
    /\ Shortcuts \intersect Agents = {} /\ Desktops \intersect Agents = {}

DesktopFiles == {StartPage!Missing, StartPage!Empty,
                 StartPage!DesktopFile(TRUE), StartPage!DesktopFile(FALSE)}

\* What the system may keep of an entry of each kind.
KeyRecords      == [value : BOOLEAN, approved : BOOLEAN]
ShortcutRecords == [plain : BOOLEAN, disabled : BOOLEAN]
DesktopRecords  == [user : DesktopFiles, system : DesktopFiles]
AgentRecords    == [plist : BOOLEAN, key : BOOLEAN, override : {"none", "enabled", "disabled"}]

RegistrationsOf(e) ==
    IF e \in Keys THEN KeyRecords
    ELSE IF e \in Shortcuts THEN ShortcutRecords
    ELSE IF e \in Desktops THEN DesktopRecords
    ELSE AgentRecords

StartupTyped ==
    /\ registered \in [StartPage!Entries -> UNION {RegistrationsOf(e) : e \in StartPage!Entries}]
    /\ \A e \in StartPage!Entries : registered[e] \in RegistrationsOf(e)
    /\ \A row \in page : row.entry \in StartPage!Entries

OnTheList(e, r) == StartPage!RowsOf(e, r) # {}

TurnedOffIsListed ==
    \A e \in turnedOff : e \in StartPage!Entries /\ OnTheList(e, registered[e])

StartupInv == StartupTyped /\ TurnedOffIsListed

\* An entry is of one kind, and so is what is kept of it.
LEMMA FourKinds ==
    ASSUME OneKindEach, NEW e \in StartPage!Entries
    PROVE  \/ /\ e \in Keys /\ RegistrationsOf(e) = KeyRecords
           \/ /\ e \notin Keys /\ e \in Shortcuts /\ RegistrationsOf(e) = ShortcutRecords
              /\ e \notin Desktops /\ e \notin Agents
           \/ /\ e \notin Keys /\ e \notin Shortcuts /\ e \in Desktops
              /\ RegistrationsOf(e) = DesktopRecords
           \/ /\ e \notin Keys /\ e \notin Shortcuts /\ e \notin Desktops /\ e \in Agents
              /\ RegistrationsOf(e) = AgentRecords
  BY DEF OneKindEach, StartPage!Entries, RegistrationsOf

LEMMA WhatIsListed ==
    ASSUME OneKindEach, NEW e \in StartPage!Entries, NEW r \in RegistrationsOf(e)
    PROVE  /\ e \in Keys => (OnTheList(e, r) <=> r.value)
           /\ e \in Shortcuts => (OnTheList(e, r) <=> r.plain \/ r.disabled)
           /\ e \in Desktops => (OnTheList(e, r) <=> StartPage!Effective(r).there)
           /\ e \in Agents => (OnTheList(e, r) <=> r.plist)
  BY FourKinds DEF OneKindEach, OnTheList, StartPage!RowsOf

\* A .desktop file that is there and was not cut off says what to start.
LEMMA TheEffectiveFile ==
    ASSUME NEW r \in DesktopRecords
    PROVE  /\ StartPage!Effective(r) \in DesktopFiles
           /\ StartPage!Effective(r).there =>
                  \/ StartPage!Effective(r) = StartPage!Empty
                  \/ \E hidden \in BOOLEAN :
                         StartPage!Effective(r) = StartPage!DesktopFile(hidden)
  <1>1. r.user \in DesktopFiles /\ r.system \in DesktopFiles
    BY DEF DesktopRecords
  <1>2. StartPage!Effective(r) \in DesktopFiles
    BY <1>1 DEF StartPage!Effective
  <1>3. ~StartPage!Missing.there
    BY DEF StartPage!Missing
  <1> QED BY <1>2, <1>3 DEF DesktopFiles

LEMMA HiddenIsSet ==
    ASSUME NEW a \in BOOLEAN, NEW enable \in BOOLEAN, NEW b \in BOOLEAN, b = ~enable
    PROVE  StartPage!WithAutostart(StartPage!DesktopFile(a), enable) = StartPage!DesktopFile(b)
  <1> DEFINE Forms == [there : BOOLEAN, exec : BOOLEAN, hidden : BOOLEAN]
             new == [StartPage!DesktopFile(a) EXCEPT !.hidden = b]
  <1>1. StartPage!DesktopFile(a) \in Forms /\ StartPage!DesktopFile(b) \in Forms
    BY DEF StartPage!DesktopFile
  <1>2. new \in Forms
    BY <1>1
  <1>3. new.there = StartPage!DesktopFile(b).there /\ new.exec = StartPage!DesktopFile(b).exec
    BY <1>1 DEF StartPage!DesktopFile
  <1>4. new.hidden = StartPage!DesktopFile(b).hidden
    BY <1>1 DEF StartPage!DesktopFile
  <1> HIDE DEF new
  <1>5. new = StartPage!DesktopFile(b)
    BY <1>1, <1>2, <1>3, <1>4
  <1>6. StartPage!DesktopFile(a) # StartPage!Empty
    BY DEF StartPage!DesktopFile, StartPage!Empty
  <1>7. [StartPage!DesktopFile(a) EXCEPT !.hidden = ~enable] = StartPage!DesktopFile(b)
    BY <1>5 DEF new
  <1> QED BY <1>6, <1>7 DEF StartPage!WithAutostart

\* The text that a switch writes is there, and is one of the few a file may have.
LEMMA TheTextWritten ==
    ASSUME NEW r \in DesktopRecords, StartPage!Effective(r).there, NEW enable \in BOOLEAN,
           NEW text \in {StartPage!WithAutostart(StartPage!Effective(r), enable),
                         StartPage!Empty}
    PROVE  text \in DesktopFiles /\ text.there
  <1>1. StartPage!Empty \in DesktopFiles /\ StartPage!Empty.there
    BY DEF DesktopFiles, StartPage!Empty
  <1>2. \A b \in BOOLEAN :
            StartPage!DesktopFile(b) \in DesktopFiles /\ StartPage!DesktopFile(b).there
    BY DEF DesktopFiles, StartPage!DesktopFile
  <1>3. CASE text = StartPage!Empty
    BY <1>1, <1>3
  <1>4. CASE /\ text = StartPage!WithAutostart(StartPage!Effective(r), enable)
             /\ StartPage!Effective(r) = StartPage!Empty
    BY <1>1, <1>4 DEF StartPage!WithAutostart
  <1>5. ASSUME text = StartPage!WithAutostart(StartPage!Effective(r), enable),
               NEW a \in BOOLEAN, StartPage!Effective(r) = StartPage!DesktopFile(a)
        PROVE  text \in DesktopFiles /\ text.there
    <2>1. PICK b \in BOOLEAN : b = ~enable
      OBVIOUS
    <2>2. text = StartPage!DesktopFile(b)
      BY <1>5, <2>1, HiddenIsSet
    <2> QED BY <1>2, <2>2
  <1> QED BY <1>3, <1>4, <1>5, TheEffectiveFile

\* What the switch may leave of an entry is listed if the entry was.
LEMMA SwitchedIsListed ==
    ASSUME OneKindEach, NEW e \in StartPage!Entries, NEW name, NEW enable \in BOOLEAN,
           NEW r \in RegistrationsOf(e), NEW s \in StartPage!Switched(e, name, enable, r)
    PROVE  s \in RegistrationsOf(e) /\ (OnTheList(e, r) => OnTheList(e, s))
  <1>1. CASE e \in Keys
    <2>1. r \in KeyRecords /\ s = [r EXCEPT !.approved = enable]
      BY <1>1, FourKinds DEF StartPage!Switched
    <2>2. s \in KeyRecords /\ s.value = r.value
      BY <2>1 DEF KeyRecords
    <2>3. s \in RegistrationsOf(e)
      BY <1>1, <2>2, FourKinds
    <2> QED BY <1>1, <2>2, <2>3, WhatIsListed
  <1>2. CASE e \in Agents
    <2>1. /\ e \notin Keys /\ e \notin Desktops /\ e \notin Shortcuts
          /\ RegistrationsOf(e) = AgentRecords
      BY <1>2, FourKinds DEF OneKindEach
    <2>2. PICK o \in {"enabled", "disabled"} : s = [r EXCEPT !.override = o]
      BY <1>2, <2>1 DEF StartPage!Switched
    <2>3. s \in AgentRecords /\ s.plist = r.plist
      BY <2>1, <2>2 DEF AgentRecords
    <2> QED BY <1>2, <2>1, <2>3, WhatIsListed
  <1>3. CASE e \in Desktops
    <2>1. /\ e \notin Keys /\ e \notin Agents /\ e \notin Shortcuts
          /\ RegistrationsOf(e) = DesktopRecords
      BY <1>3, FourKinds DEF OneKindEach
    <2>2. /\ StartPage!Effective(r).there
          /\ \E text \in {StartPage!WithAutostart(StartPage!Effective(r), enable),
                          StartPage!Empty} : s = [r EXCEPT !.user = text]
      BY <1>3, <2>1 DEF StartPage!Switched
    <2>3. PICK text \in DesktopFiles : text.there /\ s = [r EXCEPT !.user = text]
      BY <2>1, <2>2, TheTextWritten
    <2>4. s \in DesktopRecords /\ s.user = text
      BY <2>1, <2>3 DEF DesktopRecords
    <2>5. StartPage!Effective(s).there
      BY <2>3, <2>4 DEF StartPage!Effective
    <2> QED BY <1>3, <2>1, <2>4, <2>5, WhatIsListed
  <1>4. CASE e \in Shortcuts
    <2>1. /\ e \notin Keys /\ e \notin Agents /\ e \notin Desktops
          /\ RegistrationsOf(e) = ShortcutRecords
      BY <1>4, FourKinds DEF OneKindEach
    <2>2. s \in {r, [plain |-> TRUE, disabled |-> FALSE], [plain |-> FALSE, disabled |-> TRUE]}
      BY <1>4, <2>1 DEF StartPage!Switched
    <2>3. s = r \/ s.plain \/ s.disabled
      BY <2>2
    <2>4. s \in ShortcutRecords
      BY <2>1, <2>2 DEF ShortcutRecords
    <2> QED BY <1>4, <2>1, <2>3, <2>4, WhatIsListed
  <1> QED BY <1>1, <1>2, <1>3, <1>4 DEF StartPage!Entries

\* Turning on what is listed makes it start, but for a shortcut and an empty file.
LEMMA SwitchedOnStarts ==
    ASSUME OneKindEach, NEW e \in StartPage!Entries, NEW name,
           NEW r \in RegistrationsOf(e), OnTheList(e, r),
           e \notin Shortcuts,
           e \in Desktops => StartPage!Effective(r) # StartPage!Empty
    PROVE  \E s \in StartPage!Switched(e, name, TRUE, r) : StartPage!Starts(e, s)
  <1>1. CASE e \in Keys
    <2>1. r \in KeyRecords /\ r.value
      BY <1>1, WhatIsListed, FourKinds
    <2>2. [r EXCEPT !.approved = TRUE] \in StartPage!Switched(e, name, TRUE, r)
      BY <1>1 DEF StartPage!Switched
    <2>3. StartPage!Starts(e, [r EXCEPT !.approved = TRUE])
      BY <1>1, <2>1 DEF StartPage!Starts, KeyRecords
    <2> QED BY <2>2, <2>3
  <1>2. CASE e \in Agents
    <2>1. /\ e \notin Keys /\ e \notin Desktops
          /\ RegistrationsOf(e) = AgentRecords
      BY <1>2, FourKinds DEF OneKindEach
    <2>2. r \in AgentRecords /\ r.plist
      BY <1>2, <2>1, WhatIsListed
    <2>3. [r EXCEPT !.override = "enabled"] \in StartPage!Switched(e, name, TRUE, r)
      BY <1>2, <2>1 DEF StartPage!Switched
    <2>4. StartPage!Starts(e, [r EXCEPT !.override = "enabled"])
      BY <1>2, <2>1, <2>2 DEF StartPage!Starts, AgentRecords
    <2> QED BY <2>3, <2>4
  <1>3. CASE e \in Desktops
    <2>1. /\ e \notin Keys /\ e \notin Agents
          /\ RegistrationsOf(e) = DesktopRecords
      BY <1>3, FourKinds DEF OneKindEach
    <2>2. r \in DesktopRecords /\ StartPage!Effective(r).there
      BY <1>3, <2>1, WhatIsListed
    <2> DEFINE text == StartPage!WithAutostart(StartPage!Effective(r), TRUE)
               s == [r EXCEPT !.user = text]
    <2>3. s \in StartPage!Switched(e, name, TRUE, r)
      BY <1>3, <2>1, <2>2 DEF StartPage!Switched
    <2>4. PICK hidden \in BOOLEAN : StartPage!Effective(r) = StartPage!DesktopFile(hidden)
      BY <1>3, <2>2, TheEffectiveFile
    <2>5. text = StartPage!DesktopFile(FALSE)
      <3>1. TRUE \in BOOLEAN /\ FALSE \in BOOLEAN /\ FALSE = ~TRUE
        OBVIOUS
      <3> QED BY <2>4, <3>1, HiddenIsSet
    <2> HIDE DEF text
    <2>6. s.user = text
      BY <2>2 DEF DesktopRecords
    <2> HIDE DEF s
    <2>7. StartPage!Effective(s) = StartPage!DesktopFile(FALSE)
      BY <2>5, <2>6 DEF StartPage!Effective, StartPage!DesktopFile
    <2>8. StartPage!Starts(e, s)
      BY <1>3, <2>1, <2>7 DEF StartPage!Starts, StartPage!DesktopFile
    <2> QED BY <2>3, <2>8
  <1> QED BY <1>1, <1>2, <1>3 DEF StartPage!Entries

\* The registration of one entry changes to r.
LEMMA RegistrationChanges ==
    ASSUME StartupInv, NEW e \in StartPage!Entries, NEW r \in RegistrationsOf(e),
           registered' = [registered EXCEPT ![e] = r],
           turnedOff' \subseteq turnedOff \union {e},
           e \in turnedOff' => OnTheList(e, r),
           \A row \in page' : row.entry \in StartPage!Entries
    PROVE  StartupInv'
  <1>1. /\ registered'[e] = r
        /\ \A o \in StartPage!Entries : o # e => registered'[o] = registered[o]
    BY DEF StartupInv, StartupTyped
  <1>2. registered' \in [StartPage!Entries ->
                             UNION {RegistrationsOf(o) : o \in StartPage!Entries}]
    <2>1. r \in UNION {RegistrationsOf(o) : o \in StartPage!Entries}
      OBVIOUS
    <2> QED BY <2>1 DEF StartupInv, StartupTyped
  <1>3. \A o \in StartPage!Entries : registered'[o] \in RegistrationsOf(o)
    BY <1>1 DEF StartupInv, StartupTyped
  <1>4. TurnedOffIsListed'
    BY <1>1 DEF StartupInv, TurnedOffIsListed
  <1> QED BY <1>2, <1>3, <1>4 DEF StartupInv, StartupTyped

\* The page shows nothing but rows of entries, before and after a step.
LEMMA ARowNamesItsEntry ==
    ASSUME NEW e, NEW r, NEW row \in StartPage!RowsOf(e, r)
    PROVE  row.entry = e
  <1>1. PICK name, on : row = [entry |-> e, name |-> name, enabled |-> on]
    <2>1. CASE e \in Keys
      BY <2>1 DEF StartPage!RowsOf, StartPage!Row
    <2>2. CASE e \notin Keys /\ e \in Shortcuts
      BY <2>2 DEF StartPage!RowsOf, StartPage!Row
    <2>3. CASE e \notin Keys /\ e \notin Shortcuts /\ e \in Desktops
      BY <2>3 DEF StartPage!RowsOf, StartPage!Row
    <2>4. CASE e \notin Keys /\ e \notin Shortcuts /\ e \notin Desktops
      BY <2>4 DEF StartPage!RowsOf, StartPage!Row
    <2> QED BY <2>1, <2>2, <2>3, <2>4
  <1> QED BY <1>1

LEMMA RowsNameEntries ==
    /\ \A row \in StartPage!Rows \union StartPage!RowsWithoutOverrides :
           row.entry \in StartPage!Entries
    /\ \A row \in StartPage!Rows' \union StartPage!RowsWithoutOverrides' :
           row.entry \in StartPage!Entries
  <1>1. \A row \in StartPage!Rows : row.entry \in StartPage!Entries
    BY ARowNamesItsEntry DEF StartPage!Rows
  <1>2. \A row \in StartPage!Rows' : row.entry \in StartPage!Entries
    BY ARowNamesItsEntry DEF StartPage!Rows
  <1>3. ASSUME NEW row \in StartPage!RowsWithoutOverrides PROVE row.entry \in StartPage!Entries
    <2>1. PICK e \in StartPage!Entries : \E r : row \in StartPage!RowsOf(e, r)
      BY DEF StartPage!RowsWithoutOverrides
    <2> QED BY <2>1, ARowNamesItsEntry
  <1>4. ASSUME NEW row \in StartPage!RowsWithoutOverrides' PROVE row.entry \in StartPage!Entries
    <2>1. PICK e \in StartPage!Entries : \E r : row \in StartPage!RowsOf(e, r)
      BY DEF StartPage!RowsWithoutOverrides
    <2> QED BY <2>1, ARowNamesItsEntry
  <1> QED BY <1>1, <1>2, <1>3, <1>4

LEMMA RefreshKeeps ==
    ASSUME StartupInv, NEW rows, StartPage!Refresh(rows) PROVE StartupInv'
  <1>1. page' \in {StartPage!Rows, StartPage!RowsWithoutOverrides}
        /\ UNCHANGED <<registered, turnedOff>>
    BY DEF StartPage!Refresh
  <1> QED BY <1>1, RowsNameEntries DEF StartupInv, StartupTyped, TurnedOffIsListed

LEMMA ToggleKeeps ==
    ASSUME StartupInv, OneKindEach, NEW row \in page, NEW shown,
           StartPage!Toggle(row, shown)
    PROVE  StartupInv'
  <1> DEFINE e  == row.entry
             r  == registered[e]
             on == ~row.enabled
  <1>1. e \in StartPage!Entries /\ r \in RegistrationsOf(e)
    BY DEF StartupInv, StartupTyped
  <1>2. PICK s \in StartPage!Switched(e, row.name, on, r) :
            registered' = [registered EXCEPT ![e] = s]
    BY DEF StartPage!Toggle
  <1>3. turnedOff' = IF ~row.enabled THEN turnedOff \ {e}
                     ELSE IF StartPage!RowsOf(e, r) = {} THEN turnedOff ELSE turnedOff \union {e}
    BY DEF StartPage!Toggle
  <1>4. page' \in {StartPage!Rows', StartPage!RowsWithoutOverrides', page}
    BY DEF StartPage!Toggle
  <1>5. \A w \in page' : w.entry \in StartPage!Entries
    BY <1>4, RowsNameEntries DEF StartupInv, StartupTyped
  <1>6. on \in BOOLEAN /\ s \in StartPage!Switched(e, row.name, on, r)
    OBVIOUS
  <1>7. s \in RegistrationsOf(e) /\ (OnTheList(e, r) => OnTheList(e, s))
    <2> HIDE DEF e, r, on
    <2> QED BY <1>1, <1>6, SwitchedIsListed
  <1>8. e \in turnedOff => OnTheList(e, r)
    BY DEF StartupInv, TurnedOffIsListed
  <1>9. turnedOff' \subseteq turnedOff \union {e} /\ (e \in turnedOff' => OnTheList(e, r))
    BY <1>3, <1>8 DEF OnTheList
  <1> HIDE DEF e, r, on
  <1> QED BY <1>1, <1>2, <1>5, <1>7, <1>9, RegistrationChanges

\* Odysync's own switch, and what programs do with their registrations.
LEMMA OwnKeeps ==
    ASSUME StartupInv, OneKindEach, Own \subseteq StartPage!Entries \ Shortcuts, NEW e \in Own,
           StartPage!Enable(e) \/ StartPage!Disable(e)
    PROVE  StartupInv'
  <1>1. /\ e \in StartPage!Entries /\ e \notin Shortcuts
        /\ registered[e] \in RegistrationsOf(e)
    BY DEF StartupInv, StartupTyped
  <1>2. \A w \in page' : w.entry \in StartPage!Entries
    BY DEF StartPage!Enable, StartPage!Disable, StartupInv, StartupTyped
  <1>3. CASE StartPage!Enable(e)
    <2> DEFINE r == registered[e]
    <2>1. r \in RegistrationsOf(e)
      BY <1>1
    <2>2. CASE e \in Keys
      <3> DEFINE s == [r EXCEPT !.value = TRUE]
      <3>1. registered' = [registered EXCEPT ![e] = s] /\ turnedOff' \subseteq turnedOff
        BY <1>3, <2>2 DEF StartPage!Enable
      <3> HIDE DEF r
      <3>2. r \in KeyRecords /\ RegistrationsOf(e) = KeyRecords
        BY <1>1, <2>1, <2>2, FourKinds
      <3>3. s \in KeyRecords /\ s.value
        BY <3>2 DEF KeyRecords
      <3> HIDE DEF s
      <3>4. OnTheList(e, s)
        BY <1>1, <2>2, <3>2, <3>3, WhatIsListed
      <3> QED BY <1>1, <1>2, <3>1, <3>2, <3>3, <3>4, RegistrationChanges
    <2>3. CASE e \in Desktops
      <3> DEFINE s == [r EXCEPT !.user = StartPage!DesktopFile(FALSE)]
      <3>1. e \notin Keys /\ RegistrationsOf(e) = DesktopRecords /\ r \in DesktopRecords
        BY <1>1, <2>1, <2>3, FourKinds DEF OneKindEach
      <3>2. registered' = [registered EXCEPT ![e] = s] /\ turnedOff' = turnedOff \ {e}
        BY <1>3, <2>3, <3>1 DEF StartPage!Enable
      <3> HIDE DEF r
      <3>3. s \in DesktopRecords
        BY <2>1, <3>1 DEF DesktopRecords, DesktopFiles
      <3> HIDE DEF s
      <3> QED BY <1>1, <1>2, <3>1, <3>2, <3>3, RegistrationChanges
    <2>4. CASE e \in Agents
      <3> DEFINE s == [r EXCEPT !.plist = TRUE, !.key = FALSE]
      <3>1. /\ e \notin Keys /\ e \notin Desktops
            /\ RegistrationsOf(e) = AgentRecords /\ r \in AgentRecords
        BY <1>1, <2>1, <2>4, FourKinds DEF OneKindEach
      <3>2. registered' = [registered EXCEPT ![e] = s] /\ turnedOff' \subseteq turnedOff
        BY <1>3, <3>1 DEF StartPage!Enable
      <3> HIDE DEF r
      <3>3. s \in AgentRecords /\ s.plist
        BY <2>1, <3>1 DEF AgentRecords
      <3> HIDE DEF s
      <3>4. OnTheList(e, s)
        BY <1>1, <2>4, <3>1, <3>3, WhatIsListed
      <3> QED BY <1>1, <1>2, <3>1, <3>2, <3>3, <3>4, RegistrationChanges
    <2> QED BY <1>1, <2>2, <2>3, <2>4 DEF StartPage!Entries
  <1>4. CASE StartPage!Disable(e)
    <2>0. PICK r \in RegistrationsOf(e) : r = registered[e]
      BY <1>1
    <2>1. PICK s :
              /\ registered' = [registered EXCEPT ![e] = s] /\ turnedOff' = turnedOff \ {e}
              /\ s = IF e \in Keys THEN [r EXCEPT !.value = FALSE]
                     ELSE IF e \in Desktops THEN [r EXCEPT !.user = StartPage!Missing]
                     ELSE [r EXCEPT !.plist = FALSE, !.key = FALSE]
      BY <1>4, <2>0 DEF StartPage!Disable
    <2>2. s \in RegistrationsOf(e)
      <3>1. StartPage!Missing \in DesktopFiles
        BY DEF DesktopFiles
      <3> QED BY <1>1, <2>1, <3>1 DEF StartPage!Entries, RegistrationsOf, OneKindEach,
                                      KeyRecords, DesktopRecords, AgentRecords
    <2> QED BY <1>1, <1>2, <2>1, <2>2, RegistrationChanges
  <1> QED BY <1>3, <1>4

\* What a program registers of itself is listed.
LEMMA RegisteredIsListed ==
    ASSUME OneKindEach, NEW e \in StartPage!Entries, registered[e] \in RegistrationsOf(e),
           NEW s \in StartPage!Registrations(e)
    PROVE  s \in RegistrationsOf(e) /\ OnTheList(e, s)
  <1>0. PICK r \in RegistrationsOf(e) : r = registered[e]
    OBVIOUS
  <1>1. CASE e \in Keys
    <2>1. s = [r EXCEPT !.value = TRUE]
      BY <1>0, <1>1 DEF StartPage!Registrations
    <2>2. RegistrationsOf(e) = KeyRecords /\ r \in KeyRecords
      BY <1>1, FourKinds
    <2>3. s \in KeyRecords /\ s.value
      BY <2>1, <2>2 DEF KeyRecords
    <2> QED BY <1>1, <2>2, <2>3, WhatIsListed
  <1>2. CASE e \in Shortcuts
    <2>1. e \notin Keys /\ RegistrationsOf(e) = ShortcutRecords /\ r \in ShortcutRecords
      BY <1>2, FourKinds DEF OneKindEach
    <2>2. s = [r EXCEPT !.plain = TRUE]
      BY <1>0, <1>2, <2>1 DEF StartPage!Registrations
    <2>3. s \in ShortcutRecords /\ s.plain
      BY <2>1, <2>2 DEF ShortcutRecords
    <2> QED BY <1>2, <2>1, <2>3, WhatIsListed
  <1>3. CASE e \in Desktops
    <2>1. /\ e \notin Keys /\ e \notin Shortcuts /\ RegistrationsOf(e) = DesktopRecords
          /\ r \in DesktopRecords
      BY <1>3, FourKinds DEF OneKindEach
    <2>2. s \in {[r EXCEPT !.user = StartPage!DesktopFile(FALSE)],
                 [r EXCEPT !.system = StartPage!DesktopFile(FALSE)]}
      BY <1>0, <1>3, <2>1 DEF StartPage!Registrations
    <2>3. StartPage!DesktopFile(FALSE) \in DesktopFiles /\ StartPage!DesktopFile(FALSE).there
      BY DEF DesktopFiles, StartPage!DesktopFile
    <2>4. /\ s \in DesktopRecords
          /\ s.user.there \/ s.system = StartPage!DesktopFile(FALSE)
      BY <2>1, <2>2, <2>3 DEF DesktopRecords
    <2>5. StartPage!Effective(s).there
      BY <2>3, <2>4 DEF StartPage!Effective
    <2> QED BY <1>3, <2>1, <2>4, <2>5, WhatIsListed
  <1>4. CASE e \in Agents
    <2>1. /\ e \notin Keys /\ e \notin Shortcuts /\ e \notin Desktops
          /\ RegistrationsOf(e) = AgentRecords /\ r \in AgentRecords
      BY <1>4, FourKinds DEF OneKindEach
    <2>2. PICK b \in BOOLEAN : s = [r EXCEPT !.plist = TRUE, !.key = b]
      BY <1>0, <1>4, <2>1 DEF StartPage!Registrations
    <2>3. s \in AgentRecords /\ s.plist
      BY <2>1, <2>2 DEF AgentRecords
    <2> QED BY <1>4, <2>1, <2>3, WhatIsListed
  <1> QED BY <1>1, <1>2, <1>3, <1>4 DEF StartPage!Entries

LEMMA WhatIsLeft ==
    ASSUME OneKindEach, NEW e \in StartPage!Entries, registered[e] \in RegistrationsOf(e),
           NEW s \in StartPage!Leavings(e)
    PROVE  s \in RegistrationsOf(e)
  <1>0. PICK r \in RegistrationsOf(e) : r = registered[e]
    OBVIOUS
  <1>1. CASE e \in Keys
    <2>1. s = [r EXCEPT !.value = FALSE]
      BY <1>0, <1>1 DEF StartPage!Leavings
    <2>2. RegistrationsOf(e) = KeyRecords /\ r \in KeyRecords
      BY <1>1, FourKinds
    <2>3. s \in KeyRecords
      BY <2>1, <2>2 DEF KeyRecords
    <2> QED BY <2>2, <2>3
  <1>2. CASE e \in Shortcuts
    <2>1. e \notin Keys /\ RegistrationsOf(e) = ShortcutRecords /\ r \in ShortcutRecords
      BY <1>2, FourKinds DEF OneKindEach
    <2>2. s = [r EXCEPT !.plain = FALSE]
      BY <1>0, <1>2, <2>1 DEF StartPage!Leavings
    <2>3. s \in ShortcutRecords
      BY <2>1, <2>2 DEF ShortcutRecords
    <2> QED BY <2>1, <2>3
  <1>3. CASE e \in Desktops
    <2>1. /\ e \notin Keys /\ e \notin Shortcuts /\ RegistrationsOf(e) = DesktopRecords
          /\ r \in DesktopRecords
      BY <1>3, FourKinds DEF OneKindEach
    <2>2. StartPage!Missing \in DesktopFiles
      BY DEF DesktopFiles
    <2>3. s \in {[r EXCEPT !.system = StartPage!Missing],
                 [user |-> StartPage!Missing, system |-> StartPage!Missing]}
      BY <1>0, <1>3, <2>1 DEF StartPage!Leavings, StartPage!Unregistered
    <2>4. s \in DesktopRecords
      BY <2>1, <2>2, <2>3 DEF DesktopRecords
    <2> QED BY <2>1, <2>4
  <1>4. CASE e \in Agents
    <2>1. /\ e \notin Keys /\ e \notin Shortcuts /\ e \notin Desktops
          /\ RegistrationsOf(e) = AgentRecords /\ r \in AgentRecords
      BY <1>4, FourKinds DEF OneKindEach
    <2>2. s = [r EXCEPT !.plist = FALSE, !.key = FALSE]
      BY <1>0, <1>4, <2>1 DEF StartPage!Leavings
    <2>3. s \in AgentRecords
      BY <2>1, <2>2 DEF AgentRecords
    <2> QED BY <2>1, <2>3
  <1> QED BY <1>1, <1>2, <1>3, <1>4 DEF StartPage!Entries

LEMMA ProgramsKeep ==
    ASSUME StartupInv, OneKindEach, NEW e \in StartPage!Entries,
           StartPage!Registers(e) \/ StartPage!Unregisters(e)
    PROVE  StartupInv'
  <1>1. registered[e] \in RegistrationsOf(e)
    BY DEF StartupInv, StartupTyped
  <1>2. \A w \in page' : w.entry \in StartPage!Entries
    BY DEF StartPage!Registers, StartPage!Unregisters, StartupInv, StartupTyped
  <1>3. CASE StartPage!Registers(e)
    <2>1. PICK s \in StartPage!Registrations(e) :
              registered' = [registered EXCEPT ![e] = s] /\ turnedOff' = turnedOff
      BY <1>3 DEF StartPage!Registers
    <2>2. s \in RegistrationsOf(e) /\ OnTheList(e, s)
      BY <1>1, RegisteredIsListed
    <2> QED BY <1>2, <2>1, <2>2, RegistrationChanges
  <1>4. CASE StartPage!Unregisters(e)
    <2>1. PICK s \in StartPage!Leavings(e) :
              registered' = [registered EXCEPT ![e] = s] /\ turnedOff' = turnedOff \ {e}
      BY <1>4 DEF StartPage!Unregisters
    <2>2. s \in RegistrationsOf(e)
      BY <1>1, <2>1, WhatIsLeft
    <2> QED BY <1>2, <2>1, <2>2, RegistrationChanges
  <1> QED BY <1>3, <1>4

LEMMA StartupStarts ==
    ASSUME OneKindEach, StartPage!StartupInit PROVE StartupInv
  <1>1. /\ registered = [e \in StartPage!Entries |-> StartPage!Unregistered(e)]
        /\ page = {} /\ turnedOff = {}
    BY DEF StartPage!StartupInit
  <1>2. ASSUME NEW e \in StartPage!Entries PROVE StartPage!Unregistered(e) \in RegistrationsOf(e)
    BY FourKinds DEF KeyRecords, ShortcutRecords, DesktopRecords, AgentRecords, DesktopFiles,
                     StartPage!Unregistered
  <1> QED BY <1>1, <1>2 DEF StartupInv, StartupTyped, TurnedOffIsListed

LEMMA StartupKeeps ==
    ASSUME StartupInv, OneKindEach, Own \subseteq StartPage!Entries \ Shortcuts,
           StartPage!StartupNext \/ UNCHANGED startupVars
    PROVE  StartupInv'
  <1>1. ASSUME NEW rows, StartPage!Refresh(rows) PROVE StartupInv'
    BY <1>1, RefreshKeeps
  <1>2. ASSUME NEW row \in page, NEW shown \in BOOLEAN, StartPage!Toggle(row, shown)
        PROVE  StartupInv'
    BY <1>2, ToggleKeeps
  <1>3. ASSUME NEW e \in Own, StartPage!Enable(e) \/ StartPage!Disable(e) PROVE StartupInv'
    BY <1>3, OwnKeeps
  <1>4. ASSUME NEW e \in StartPage!Entries, StartPage!Registers(e) \/ StartPage!Unregisters(e)
        PROVE  StartupInv'
    BY <1>4, ProgramsKeep
  <1>5. CASE UNCHANGED startupVars
    BY <1>5 DEF startupVars, StartupInv, StartupTyped, TurnedOffIsListed
  <1> QED BY <1>1, <1>2, <1>3, <1>4, <1>5 DEF StartPage!StartupNext

\* What starts is on the list; what the list shows as on starts, but for an empty file.
LEMMA TheListIsTrue ==
    ASSUME OneKindEach, NEW e \in StartPage!Entries, NEW r \in RegistrationsOf(e)
    PROVE  /\ StartPage!Starts(e, r) => OnTheList(e, r)
           /\ \A row \in StartPage!RowsOf(e, r) :
                  row.enabled => \/ e \in Desktops /\ StartPage!Effective(r) = StartPage!Empty
                                 \/ StartPage!Starts(e, r)
  <1>0. \A name, b : StartPage!Row(e, name, b).enabled = b
    BY DEF StartPage!Row
  <1>1. CASE e \in Keys
    <2>1. StartPage!Starts(e, r) <=> r.value /\ r.approved
      BY <1>1 DEF StartPage!Starts
    <2>2. \A row \in StartPage!RowsOf(e, r) : r.value /\ row = StartPage!Row(e, "own", r.approved)
      BY <1>1 DEF StartPage!RowsOf
    <2> QED BY <1>0, <1>1, <2>1, <2>2, WhatIsListed
  <1>2. CASE e \in Agents
    <2>1. /\ e \notin Keys /\ e \notin Shortcuts /\ e \notin Desktops
          /\ RegistrationsOf(e) = AgentRecords
      BY <1>2, FourKinds DEF OneKindEach
    <2>2. StartPage!Starts(e, r) <=>
              r.plist /\ (r.override = "enabled" \/ (r.override = "none" /\ ~r.key))
      BY <2>1 DEF StartPage!Starts
    <2>3. \A row \in StartPage!RowsOf(e, r) :
              r.plist /\ row = StartPage!Row(e, "own", ~r.key /\ r.override # "disabled")
      BY <2>1 DEF StartPage!RowsOf
    <2>4. \A row \in StartPage!RowsOf(e, r) : row.enabled => ~r.key /\ r.override # "disabled"
      BY <1>0, <2>3
    <2>5. r.override \in {"none", "enabled", "disabled"}
      BY <2>1 DEF AgentRecords
    <2> QED BY <1>2, <2>2, <2>3, <2>4, <2>5, WhatIsListed
  <1>3. CASE e \in Desktops
    <2> DEFINE file == StartPage!Effective(r)
    <2>1. /\ e \notin Keys /\ e \notin Shortcuts /\ RegistrationsOf(e) = DesktopRecords
      BY <1>3, FourKinds DEF OneKindEach
    <2>2. StartPage!Starts(e, r) <=> file.exec /\ ~file.hidden
      BY <1>3, <2>1 DEF StartPage!Starts
    <2>3. \A row \in StartPage!RowsOf(e, r) :
              file.there /\ row = StartPage!Row(e, "own", ~file.hidden)
      BY <1>3, <2>1 DEF StartPage!RowsOf
    <2>4. \A row \in StartPage!RowsOf(e, r) : row.enabled => ~file.hidden
      BY <1>0, <2>3
    <2>5. file.exec => file.there
      BY <2>1, TheEffectiveFile
      DEF DesktopFiles, StartPage!Missing, StartPage!Empty, StartPage!DesktopFile
    <2>6. file.there => file.exec \/ file = StartPage!Empty
      BY <2>1, TheEffectiveFile DEF StartPage!DesktopFile
    <2>7. OnTheList(e, r) <=> file.there
      BY <1>3, WhatIsListed
    <2> HIDE DEF file
    <2>8. \A row \in StartPage!RowsOf(e, r) :
              row.enabled => file = StartPage!Empty \/ StartPage!Starts(e, r)
      BY <2>2, <2>3, <2>4, <2>6
    <2> QED BY <1>3, <2>2, <2>5, <2>7, <2>8 DEF file
  <1>4. CASE e \in Shortcuts
    <2>1. e \notin Keys /\ e \notin Desktops /\ RegistrationsOf(e) = ShortcutRecords
      BY <1>4, FourKinds DEF OneKindEach
    <2>2. StartPage!Starts(e, r) <=> r.plain
      BY <1>4, <2>1 DEF StartPage!Starts
    <2>3. \A row \in StartPage!RowsOf(e, r) :
              \/ r.plain
              \/ row = StartPage!Row(e, "own.lnk", FALSE)
      BY <1>4, <2>1 DEF StartPage!RowsOf
    <2> QED BY <1>0, <1>4, <2>2, <2>3, WhatIsListed
  <1> QED BY <1>1, <1>2, <1>3, <1>4 DEF StartPage!Entries

LEMMA OffComesBack ==
    ASSUME StartupInv, OneKindEach PROVE ComesBack
  <1>1. \A e \in StartPage!Entries : registered[e] \in RegistrationsOf(e)
    BY DEF StartupInv, StartupTyped
  <1>2. ASSUME NEW e \in turnedOff, e \notin Shortcuts, ~StartPage!CutOff(e)
        PROVE  StartPage!TurnsOn(e)
    <2>1. e \in StartPage!Entries /\ OnTheList(e, registered[e])
      BY DEF StartupInv, TurnedOffIsListed
    <2>2. PICK row \in StartPage!RowsOf(e, registered[e]) : TRUE
      BY <2>1 DEF OnTheList
    <2>3. e \in Desktops => StartPage!Effective(registered[e]) # StartPage!Empty
      BY <1>2 DEF StartPage!CutOff
    <2>4. \E r \in StartPage!Switched(e, row.name, TRUE, registered[e]) : StartPage!Starts(e, r)
      BY <1>1, <1>2, <2>1, <2>3, SwitchedOnStarts
    <2> QED BY <2>2, <2>4 DEF StartPage!TurnsOn
  <1>3. \A e \in turnedOff : StartPage!RowsOf(e, registered[e]) # {}
    BY DEF StartupInv, TurnedOffIsListed, OnTheList
  <1>4. ASSUME NEW e \in StartPage!Entries
        PROVE  /\ StartPage!Starts(e, registered[e]) => StartPage!RowsOf(e, registered[e]) # {}
               /\ \A row \in StartPage!RowsOf(e, registered[e]) :
                      row.enabled => StartPage!CutOff(e) \/ StartPage!Starts(e, registered[e])
    BY <1>1, TheListIsTrue DEF OnTheList, StartPage!CutOff
  <1> QED BY <1>2, <1>3, <1>4 DEF ComesBack, StartPage!ComesBack

-----------------------------------------------------------------------------
(***************************************************************************)
(* The schedule.  Nothing is promised while a call is under way; a call    *)
(* that creates answers only from a step at which the files, and what is   *)
(* enabled, are already as it is about to say, and one that removes        *)
(* remembers whether any of its calls took the schedule from the next      *)
(* sign-in.                                                                *)
(***************************************************************************)
FirstFiles == {"registering", "writing", "writing service"}
FilesThere == {"loading", "reloading", "enabling", "starting"}
Creating   == FirstFiles \union {"writing timer"} \union FilesThere
Undoing    == {"disabling", "stopping", "removing timer", "removing service", "reloading after"}
ScheduleSteps == {"none", "deleting", "unloading", "removing"} \union Creating \union Undoing

Units == [time : Times \union {Sched!NoPart, Sched!Cut},
          verb : Verbs \union {Sched!NoPart, Sched!Cut}]
Calls == [pc : ScheduleSteps, spec : Sched!Specs \union {Sched!NoUnit}, reports : BOOLEAN,
          took : BOOLEAN]

ScheduleTyped ==
    /\ manager \in {"schtasks", "launchd", "systemd"}
    /\ unit \in Units /\ loaded \in Sched!Specs \union {Sched!NoUnit}
    /\ enabled \in BOOLEAN /\ op \in Calls

CallFits ==
    /\ op.pc # "none" => promise = Sched!Open
    /\ op.pc \in Creating => op.spec \in Sched!Specs /\ ~op.took
    /\ op.pc = "registering" => manager # "systemd"
    /\ op.pc \in {"writing", "loading"} => manager = "launchd"
    /\ op.pc = "writing timer" => unit.verb = op.spec.verb
    /\ op.pc \in FilesThere => unit = op.spec
    /\ op.pc = "starting" => enabled
    /\ op.pc \in Undoing => manager = "systemd"
    /\ op.took => Sched!AtSignIn = Sched!NoUnit

PromiseIsKept ==
    /\ promise \in Sched!Specs =>
           /\ unit = promise /\ (manager = "systemd" => enabled)
           /\ loaded = promise \/ (manager = "launchd" /\ loaded \in Sched!Specs)
    /\ promise = Sched!NoUnit => Sched!AtSignIn = Sched!NoUnit

ScheduleInv == ScheduleTyped /\ CallFits /\ PromiseIsKept

\* What the words of the model that are no time of day, and nothing to run, are not.
PlainWords ==
    {Sched!NoPart, "open", "unheard", "not seen"} \intersect (Times \union Verbs) = {}

LEMMA PartsOfAUnit ==
    ASSUME PlainWords
    PROVE  /\ Sched!NoUnit \in Units /\ Sched!NoUnit.time = Sched!NoPart
           /\ Sched!NoOp \in Calls /\ Sched!NoOp.pc = "none" /\ ~Sched!NoOp.took
           /\ Sched!Specs \subseteq Units
           /\ Sched!NoUnit \notin Sched!Specs
           /\ \A word \in {Sched!Open, Sched!Unheard, Sched!NotSeen} :
                  word \notin Sched!Specs /\ word # Sched!NoUnit
           /\ \A u \in Units :
                  u.time = Sched!NoPart \/ u.verb = Sched!NoPart => u \notin Sched!Specs
  <1>1. /\ Sched!NoUnit = [time |-> Sched!NoPart, verb |-> Sched!NoPart]
        /\ Sched!Open = [time |-> "open", verb |-> "open"]
        /\ Sched!Unheard = [time |-> "unheard", verb |-> "unheard"]
        /\ Sched!NotSeen = [time |-> "not seen", verb |-> "not seen"]
        /\ Sched!Specs = [time : Times, verb : Verbs]
        /\ Sched!NoPart = "no part"
    BY DEF Sched!NoUnit, Sched!Open, Sched!Unheard, Sched!NotSeen, Sched!Specs, Sched!NoPart
  <1>2. /\ Sched!NoPart \notin Times /\ Sched!NoPart \notin Verbs
        /\ "open" \notin Times /\ "unheard" \notin Times /\ "not seen" \notin Times
    BY DEF PlainWords
  <1>3. "none" \in ScheduleSteps
    BY DEF ScheduleSteps
  <1>4. Sched!NoOp = [pc |-> "none", spec |-> Sched!NoUnit, reports |-> TRUE, took |-> FALSE]
    BY DEF Sched!NoOp
  <1>5. Sched!NoOp \in Calls /\ Sched!NoOp.pc = "none" /\ ~Sched!NoOp.took
    BY <1>3, <1>4 DEF Calls
  <1>6. Sched!NoUnit \in Units /\ Sched!NoUnit.time = Sched!NoPart /\ Sched!Specs \subseteq Units
    BY <1>1 DEF Units
  <1>7. Sched!NoUnit \notin Sched!Specs
    BY <1>1, <1>2
  <1>8. \A word \in {Sched!Open, Sched!Unheard, Sched!NotSeen} :
            word \notin Sched!Specs /\ word # Sched!NoUnit
    <2>1. Sched!Open \notin Sched!Specs /\ Sched!Open # Sched!NoUnit
      BY <1>1, <1>2
    <2>2. Sched!Unheard \notin Sched!Specs /\ Sched!Unheard # Sched!NoUnit
      BY <1>1, <1>2
    <2>3. Sched!NotSeen \notin Sched!Specs /\ Sched!NotSeen # Sched!NoUnit
      BY <1>1, <1>2
    <2> QED BY <2>1, <2>2, <2>3
  <1>9. \A u \in Units : u.time = Sched!NoPart \/ u.verb = Sched!NoPart => u \notin Sched!Specs
    BY <1>1, <1>2 DEF Units
  <1> QED BY <1>5, <1>6, <1>7, <1>8, <1>9

\* What the files come to is a schedule or none.
LEMMA WhatTheyComeTo ==
    /\ Sched!Effective \in Sched!Specs \union {Sched!NoUnit}
    /\ Sched!AtSignIn \in Sched!Specs \union {Sched!NoUnit}
  BY DEF Sched!AtSignIn, Sched!Effective

\* A call goes on to a further step, and has promised nothing.
LEMMA CallGoesOn ==
    ASSUME ScheduleInv, PlainWords, NEW next \in ScheduleSteps,
           promise' = Sched!Open, op' \in Calls, op'.pc = next, unit' \in Units,
           enabled' \in BOOLEAN, loaded' \in Sched!Specs \union {Sched!NoUnit},
           UNCHANGED manager,
           next \in Creating => op'.spec \in Sched!Specs /\ ~op'.took,
           next = "registering" => manager # "systemd",
           next \in {"writing", "loading"} => manager = "launchd",
           next = "writing timer" => unit'.verb = op'.spec.verb,
           next \in FilesThere => unit' = op'.spec,
           next = "starting" => enabled',
           next \in Undoing => manager = "systemd",
           op'.took => Sched!AtSignIn' = Sched!NoUnit
    PROVE  ScheduleInv'
  <1>1. promise' \notin Sched!Specs /\ promise' # Sched!NoUnit
    BY PartsOfAUnit
  <1> QED BY <1>1 DEF ScheduleInv, ScheduleTyped, CallFits, PromiseIsKept

\* A call ends: with nothing promised, or with a promise that is kept.
LEMMA CallEnds ==
    ASSUME PlainWords, op' = Sched!NoOp, unit' \in Units, enabled' \in BOOLEAN,
           loaded' \in Sched!Specs \union {Sched!NoUnit},
           manager' \in {"schtasks", "launchd", "systemd"},
           PromiseIsKept'
    PROVE  ScheduleInv'
  <1>1. "none" \notin Creating \union Undoing /\ "none" \notin FilesThere
    BY DEF Creating, Undoing, FirstFiles, FilesThere
  <1> QED BY <1>1, PartsOfAUnit DEF ScheduleInv, ScheduleTyped, CallFits

LEMMA NothingIsPromised ==
    ASSUME PlainWords, promise' \in {Sched!Open, Sched!Unheard, Sched!NotSeen}
    PROVE  PromiseIsKept'
  BY PartsOfAUnit DEF PromiseIsKept

LEMMA CallsBegin ==
    ASSUME ScheduleInv, PlainWords,
           \/ \E spec \in Sched!Specs : Sched!BeginCreate(spec)
           \/ \E reports \in BOOLEAN : Sched!BeginRemove(reports)
    PROVE  ScheduleInv'
  <1>0. Sched!NoOp = [pc |-> "none", spec |-> Sched!NoUnit, reports |-> TRUE, took |-> FALSE]
    BY DEF Sched!NoOp
  <1>1. ASSUME NEW spec \in Sched!Specs, Sched!BeginCreate(spec) PROVE ScheduleInv'
    <2>1. PICK pc \in FirstFiles : /\ op' = [Sched!NoOp EXCEPT !.spec = spec, !.pc = pc]
                                   /\ pc = "registering" => manager # "systemd"
                                   /\ pc = "writing" => manager = "launchd"
      BY <1>1 DEF Sched!BeginCreate, Sched!Uses, FirstFiles
    <2>2. /\ promise' = Sched!Open /\ UNCHANGED <<manager, unit, loaded, enabled>>
      BY <1>1 DEF Sched!BeginCreate
    <2>3. /\ pc \in ScheduleSteps /\ pc \notin FilesThere \union Undoing
          /\ pc # "writing timer" /\ pc # "loading" /\ pc # "starting"
      BY <2>1 DEF FirstFiles, FilesThere, Creating, Undoing, ScheduleSteps
    <2>4. op' \in Calls /\ op'.pc = pc /\ op'.spec = spec /\ ~op'.took
      BY <1>0, <2>1, <2>3 DEF Calls
    <2> QED BY <2>1, <2>2, <2>3, <2>4, CallGoesOn DEF ScheduleInv, ScheduleTyped
  <1>2. ASSUME NEW reports \in BOOLEAN, Sched!BeginRemove(reports) PROVE ScheduleInv'
    <2>1. PICK pc \in {"deleting", "unloading", "disabling"} :
              /\ op' = [Sched!NoOp EXCEPT !.reports = reports, !.pc = pc]
              /\ pc = "disabling" => manager = "systemd"
      BY <1>2 DEF Sched!BeginRemove, Sched!Uses, ScheduleInv, ScheduleTyped
    <2>2. /\ promise' = Sched!Open /\ UNCHANGED <<manager, unit, loaded, enabled>>
      BY <1>2 DEF Sched!BeginRemove
    <2>3. /\ pc \in ScheduleSteps /\ pc \notin Creating \union FilesThere
          /\ pc \notin {"registering", "writing", "loading", "writing timer", "starting"}
          /\ pc \in Undoing => pc = "disabling"
      BY <2>1 DEF FirstFiles, FilesThere, Creating, Undoing, ScheduleSteps
    <2>4. op' \in Calls /\ op'.pc = pc /\ ~op'.took
      BY <1>0, <2>1, <2>3 DEF Calls
    <2> QED BY <2>1, <2>2, <2>3, <2>4, CallGoesOn DEF ScheduleInv, ScheduleTyped
  <1> QED BY <1>1, <1>2

\* A query that sees none, because there is none or because it has failed.
LEMMA NoneFoundKeeps ==
    ASSUME ScheduleInv, PlainWords, NEW answered \in BOOLEAN, Sched!NoneFound(answered)
    PROVE  ScheduleInv'
  <1>1. /\ op.pc = "none" /\ UNCHANGED <<manager, unit, loaded, enabled, op>>
        /\ promise' = IF unit.time = Sched!NoPart THEN Sched!NoUnit ELSE Sched!NotSeen
    BY DEF Sched!NoneFound, Sched!Step
  <1>2. Sched!AtSignIn' = Sched!AtSignIn
    BY <1>1 DEF Sched!AtSignIn, Sched!Effective, Sched!Uses
  <1>3. CASE unit.time = Sched!NoPart
    <2>1. Sched!AtSignIn = Sched!NoUnit
      BY <1>3, PartsOfAUnit DEF ScheduleInv, ScheduleTyped, Sched!AtSignIn, Sched!Effective
    <2>2. PromiseIsKept'
      BY <1>1, <1>2, <1>3, <2>1, PartsOfAUnit DEF PromiseIsKept
    <2> QED BY <1>1, <1>2, <2>2 DEF ScheduleInv, ScheduleTyped, CallFits
  <1>4. CASE unit.time # Sched!NoPart
    <2>1. PromiseIsKept'
      BY <1>1, <1>4, NothingIsPromised
    <2> QED BY <1>1, <1>2, <2>1 DEF ScheduleInv, ScheduleTyped, CallFits
  <1> QED BY <1>3, <1>4

\* A step that writes the files, or goes on between two of them.
LEMMA CreatingKeeps ==
    ASSUME ScheduleInv, PlainWords,
           \/ Sched!WritePlist \/ Sched!WriteService \/ Sched!WriteTimer
           \/ Sched!Reload \/ Sched!EnableTimer
    PROVE  ScheduleInv'
  <1> DEFINE spec == op.spec
  <1>1. /\ unit \in Units /\ enabled \in BOOLEAN /\ op \in Calls
        /\ loaded \in Sched!Specs \union {Sched!NoUnit}
        /\ manager \in {"schtasks", "launchd", "systemd"}
    BY DEF ScheduleInv, ScheduleTyped
  <1>2. Sched!Cut = "cut" /\ Sched!NoPart = "no part"
    BY DEF Sched!Cut, Sched!NoPart
  <1>3. ASSUME NEW from \in FirstFiles \union {"writing timer"},
               NEW next \in {"loading", "writing timer", "reloading"},
               NEW new \in Units, Sched!WriteFile(from, next, new),
               next = "writing timer" => new.verb = spec.verb,
               next # "writing timer" => new = spec,
               next = "loading" => manager = "launchd"
        PROVE  ScheduleInv'
    <2>1. /\ op.pc = from /\ op.pc # "none" /\ spec \in Sched!Specs /\ promise = Sched!Open
          /\ ~op.took /\ UNCHANGED <<manager, loaded, enabled, promise>>
      BY <1>3 DEF Sched!WriteFile, Sched!Step, ScheduleInv, CallFits, FirstFiles, Creating
    <2>2. CASE unit' = new /\ Sched!Go(next)
      <3>1. op' = [op EXCEPT !.pc = next]
        BY <2>2 DEF Sched!Go
      <3>2. /\ next \in ScheduleSteps
            /\ next \notin Undoing \union {"registering", "writing", "starting"}
        BY <1>3 DEF ScheduleSteps, Creating, FilesThere, Undoing
      <3>3. op' \in Calls /\ op'.pc = next /\ op'.spec = spec /\ ~op'.took
        BY <1>1, <2>1, <3>1, <3>2 DEF Calls
      <3>4. next \in FilesThere => next # "writing timer"
        BY DEF FilesThere
      <3> HIDE DEF spec
      <3> QED BY <1>1, <1>3, <2>1, <2>2, <3>2, <3>3, <3>4, CallGoesOn
    <2>3. CASE /\ op' = Sched!NoOp
               /\ unit' = [part \in {"time", "verb"} |->
                               IF new[part] = unit[part] THEN unit[part] ELSE Sched!Cut]
      <3>1. unit' = [time |-> IF new.time = unit.time THEN unit.time ELSE Sched!Cut,
                     verb |-> IF new.verb = unit.verb THEN unit.verb ELSE Sched!Cut]
        BY <2>3
      <3>2. unit' \in Units
        BY <1>1, <3>1 DEF Units
      <3> QED BY <1>1, <2>1, <2>3, <3>2, CallEnds, NothingIsPromised
    <2> QED BY <1>3, <2>2, <2>3 DEF Sched!WriteFile
  <1>4. CASE Sched!WritePlist
    <2>1. op.pc = "writing" /\ manager = "launchd" /\ spec \in Sched!Specs
      BY <1>4 DEF Sched!WritePlist, Sched!WriteFile, Sched!Step, ScheduleInv, CallFits,
                  FirstFiles, Creating
    <2>2. spec \in Units /\ "writing" \in FirstFiles
      BY <2>1, PartsOfAUnit DEF FirstFiles
    <2> QED BY <1>3, <1>4, <2>1, <2>2 DEF Sched!WritePlist
  <1>5. CASE Sched!WriteService
    <2>1. op.pc = "writing service" /\ spec \in Sched!Specs
      BY <1>5 DEF Sched!WriteService, Sched!WriteFile, Sched!Step, ScheduleInv, CallFits,
                  FirstFiles, Creating
    <2>2. spec \in Units /\ "writing service" \in FirstFiles
      BY <2>1, PartsOfAUnit DEF FirstFiles
    <2>3. /\ [unit EXCEPT !.verb = spec.verb] \in Units
          /\ [unit EXCEPT !.verb = spec.verb].verb = spec.verb
      BY <1>1, <2>2 DEF Units
    <2> QED BY <1>3, <1>5, <2>2, <2>3 DEF Sched!WriteService
  <1>6. CASE Sched!WriteTimer
    <2>1. op.pc = "writing timer" /\ spec \in Sched!Specs /\ unit.verb = spec.verb
      BY <1>6 DEF Sched!WriteTimer, Sched!WriteFile, Sched!Step, ScheduleInv, CallFits,
                  FirstFiles, Creating
    <2>2. spec \in Units
      BY <2>1, PartsOfAUnit
    <2>3. [unit EXCEPT !.time = spec.time] = spec
      BY <1>1, <2>1, <2>2 DEF Units
    <2> QED BY <1>3, <1>6, <2>2, <2>3 DEF Sched!WriteTimer
  <1>7. ASSUME NEW from \in FilesThere, NEW next \in {"enabling", "starting"},
               op.pc = from, Sched!Go(next), UNCHANGED <<manager, unit, promise>>,
               enabled' \in BOOLEAN, next = "starting" => enabled',
               loaded' \in Sched!Specs \union {Sched!NoUnit}
        PROVE  ScheduleInv'
    <2>1. op' = [op EXCEPT !.pc = next]
      BY <1>7 DEF Sched!Go
    <2>2. /\ next \in ScheduleSteps
          /\ next \notin Undoing \union {"registering", "writing", "loading", "writing timer"}
      BY <1>7 DEF ScheduleSteps, Creating, FilesThere, Undoing
    <2>3. /\ op.pc # "none" /\ spec \in Sched!Specs /\ unit = spec /\ promise = Sched!Open
          /\ ~op.took
      BY <1>7 DEF ScheduleInv, CallFits, FilesThere, Creating
    <2>4. op' \in Calls /\ op'.pc = next /\ op'.spec = spec /\ ~op'.took
      BY <1>1, <2>1, <2>2, <2>3 DEF Calls
    <2> HIDE DEF spec
    <2> QED BY <1>1, <1>7, <2>2, <2>3, <2>4, CallGoesOn
  <1>8. CASE Sched!Reload
    <2>1. "reloading" \in FilesThere
      BY DEF FilesThere
    <2>2. loaded' \in Sched!Specs \union {Sched!NoUnit}
      BY <1>8, WhatTheyComeTo DEF Sched!Reload, Sched!Reloaded
    <2> QED BY <1>1, <1>7, <1>8, <2>1, <2>2 DEF Sched!Reload, Sched!Step
  <1>9. CASE Sched!EnableTimer
    <2>1. "enabling" \in FilesThere
      BY DEF FilesThere
    <2> QED BY <1>1, <1>7, <1>9, <2>1 DEF Sched!EnableTimer, Sched!Step
  <1> QED BY <1>4, <1>5, <1>6, <1>8, <1>9

\* The calls that create answer once what they asked for is there; launchd may keep an older
\* job of the name until the next sign-in.
LEMMA CreatedIsThere ==
    ASSUME ScheduleInv, PlainWords, Sched!Register \/ Sched!Load \/ Sched!StartTimer
    PROVE  ScheduleInv'
  <1>1. /\ unit \in Units /\ enabled \in BOOLEAN /\ op \in Calls
        /\ loaded \in Sched!Specs \union {Sched!NoUnit}
        /\ manager \in {"schtasks", "launchd", "systemd"}
    BY DEF ScheduleInv, ScheduleTyped
  <1>2. /\ op.pc \in {"registering", "loading", "starting"}
        /\ Sched!Answer(op.spec)
        /\ UNCHANGED <<manager, enabled>>
    BY DEF Sched!Register, Sched!Load, Sched!StartTimer, Sched!Step
  <1>3. op.spec \in Sched!Specs
    BY <1>2 DEF ScheduleInv, CallFits, FirstFiles, FilesThere, Creating
  <1>4. op' = Sched!NoOp /\ promise' = op.spec /\ op.spec \in Units /\ op.spec # Sched!NoUnit
    BY <1>2, <1>3, PartsOfAUnit DEF Sched!Answer
  <1>5. /\ unit' = op.spec /\ (manager = "systemd" => enabled)
        /\ loaded' = op.spec \/ (manager = "launchd" /\ loaded' \in Sched!Specs)
    <2>1. CASE Sched!Register
      BY <2>1 DEF Sched!Register, Sched!Step, ScheduleInv, CallFits
    <2>2. CASE Sched!Load
      <3>1. /\ op.pc = "loading" /\ UNCHANGED unit
            /\ loaded' = IF loaded = Sched!NoUnit THEN op.spec ELSE loaded
        BY <2>2 DEF Sched!Load, Sched!Step
      <3>2. manager = "launchd" /\ unit = op.spec
        BY <3>1 DEF ScheduleInv, CallFits, FilesThere
      <3> QED BY <1>1, <3>1, <3>2
    <2>3. CASE Sched!StartTimer
      <3>1. unit = op.spec /\ enabled
        BY <2>3 DEF Sched!StartTimer, Sched!Step, ScheduleInv, CallFits, FilesThere
      <3> QED BY <1>3, <2>3, <3>1 DEF Sched!StartTimer, Sched!Effective
    <2> QED BY <2>1, <2>2, <2>3
  <1>6. PromiseIsKept'
    BY <1>2, <1>4, <1>5 DEF PromiseIsKept
  <1> QED BY <1>1, <1>2, <1>3, <1>4, <1>5, <1>6, CallEnds

\* The steps between which a removal goes on.
LEMMA RemovingKeeps ==
    ASSUME ScheduleInv, PlainWords, NEW ok \in BOOLEAN,
           \/ Sched!Unload(ok) \/ Sched!DisableTimer(ok) \/ Sched!StopTimer(ok)
           \/ Sched!RemoveUnit("removing timer", "removing service", "time", ok)
           \/ Sched!RemoveUnit("removing service", "reloading after", "verb", ok)
    PROVE  ScheduleInv'
  <1>1. /\ unit \in Units /\ enabled \in BOOLEAN /\ op \in Calls
        /\ loaded \in Sched!Specs \union {Sched!NoUnit}
    BY DEF ScheduleInv, ScheduleTyped
  <1>2. /\ op.pc # "none" => promise = Sched!Open
        /\ op.pc \in Undoing => manager = "systemd"
        /\ op.took => Sched!AtSignIn = Sched!NoUnit
    BY DEF ScheduleInv, CallFits
  <1>3. ASSUME NEW next \in {"removing"} \union Undoing, NEW took \in BOOLEAN,
               op' = [op EXCEPT !.pc = next, !.took = took],
               op.pc # "none", UNCHANGED <<manager, promise>>,
               unit' \in Units, enabled' \in BOOLEAN,
               loaded' \in Sched!Specs \union {Sched!NoUnit},
               next \in Undoing => manager = "systemd",
               took => Sched!AtSignIn' = Sched!NoUnit
        PROVE  ScheduleInv'
    <2>1. /\ next \in ScheduleSteps
          /\ next \notin Creating \union FilesThere
          /\ next \notin {"registering", "writing", "loading", "writing timer", "starting"}
      BY <1>3 DEF ScheduleSteps, Creating, FirstFiles, FilesThere, Undoing
    <2>2. op' \in Calls /\ op'.pc = next /\ op'.took = took
      BY <1>1, <1>3, <2>1 DEF Calls
    <2> QED BY <1>2, <1>3, <2>1, <2>2, CallGoesOn
  <1>4. ASSUME NEW next, Sched!Go(next) PROVE op' = [op EXCEPT !.pc = next, !.took = op.took]
    BY <1>1, <1>4 DEF Sched!Go, Calls
  <1>5. op.took \in BOOLEAN
    BY <1>1 DEF Calls
  <1>6. CASE Sched!Unload(ok)
    <2>1. Sched!AtSignIn' = Sched!AtSignIn
      BY <1>6 DEF Sched!Unload, Sched!AtSignIn, Sched!Effective, Sched!Uses
    <2>2. "removing" \notin Undoing
      BY DEF Undoing
    <2> QED BY <1>1, <1>2, <1>3, <1>4, <1>5, <1>6, <2>1, <2>2 DEF Sched!Unload, Sched!Step
  <1>7. CASE Sched!StopTimer(ok)
    <2>1. Sched!AtSignIn' = Sched!AtSignIn
      BY <1>7 DEF Sched!StopTimer, Sched!AtSignIn, Sched!Effective, Sched!Uses
    <2>2. "stopping" \in Undoing /\ "removing timer" \in Undoing
      BY DEF Undoing
    <2> QED BY <1>1, <1>2, <1>3, <1>4, <1>5, <1>7, <2>1, <2>2 DEF Sched!StopTimer, Sched!Step
  <1>8. CASE Sched!DisableTimer(ok)
    <2> DEFINE took == op.took \/ ok
    <2>1. /\ op.pc = "disabling" /\ enabled' = (enabled /\ ~ok)
          /\ op' = [op EXCEPT !.pc = "stopping", !.took = took]
          /\ UNCHANGED <<manager, unit, loaded, promise>>
      BY <1>8 DEF Sched!DisableTimer, Sched!TakesAway, Sched!Step
    <2>2. "disabling" \in Undoing /\ "stopping" \in Undoing
      BY DEF Undoing
    <2>3. took => Sched!AtSignIn' = Sched!NoUnit
      BY <1>2, <2>1, <2>2 DEF Sched!AtSignIn, Sched!Effective, Sched!Uses
    <2>4. took \in BOOLEAN
      BY <1>5
    <2> HIDE DEF took
    <2> QED BY <1>1, <1>2, <1>3, <2>1, <2>2, <2>3, <2>4
  <1>9. ASSUME NEW from \in Undoing, NEW next \in Undoing, NEW part \in {"time", "verb"},
               Sched!RemoveUnit(from, next, part, ok)
        PROVE  ScheduleInv'
    <2> DEFINE took == op.took \/ ok
    <2>1. /\ op.pc = from
          /\ unit' = IF ok THEN [unit EXCEPT ![part] = Sched!NoPart] ELSE unit
          /\ op' = [op EXCEPT !.pc = next, !.took = took]
          /\ UNCHANGED <<manager, loaded, enabled, promise>>
      BY <1>9 DEF Sched!RemoveUnit, Sched!TakesAway, Sched!Step
    <2>2. op.pc # "none"
      BY <1>9, <2>1 DEF Undoing
    <2>3. /\ unit' \in Units
          /\ ok => unit'.time = Sched!NoPart \/ unit'.verb = Sched!NoPart
      BY <1>1, <2>1 DEF Units
    <2>4. ok => Sched!AtSignIn' = Sched!NoUnit
      BY <2>3, PartsOfAUnit DEF Sched!AtSignIn, Sched!Effective
    <2>5. ~ok => Sched!AtSignIn' = Sched!AtSignIn
      BY <2>1 DEF Sched!AtSignIn, Sched!Effective, Sched!Uses
    <2>6. took \in BOOLEAN /\ (took => Sched!AtSignIn' = Sched!NoUnit)
      BY <1>2, <1>5, <2>4, <2>5
    <2> HIDE DEF took
    <2> QED BY <1>1, <1>2, <1>3, <1>9, <2>1, <2>2, <2>3, <2>6
  <1>10. {"removing timer", "removing service", "reloading after"} \subseteq Undoing
    BY DEF Undoing
  <1> QED BY <1>6, <1>7, <1>8, <1>9, <1>10

\* The last step of a removal answers.
LEMMA RemovalAnswers ==
    ASSUME ScheduleInv, PlainWords, NEW ok \in BOOLEAN,
           Sched!Delete(ok) \/ Sched!RemovePlist(ok) \/ Sched!ReloadAfter(ok)
    PROVE  ScheduleInv'
  <1>1. /\ unit \in Units /\ enabled \in BOOLEAN /\ op \in Calls
        /\ loaded \in Sched!Specs \union {Sched!NoUnit}
        /\ manager \in {"schtasks", "launchd", "systemd"}
    BY DEF ScheduleInv, ScheduleTyped, Calls
  <1>2. /\ op.pc # "none" /\ UNCHANGED <<manager, enabled>>
        /\ op' = Sched!NoOp
        /\ promise' \in {Sched!NoUnit, Sched!Open, Sched!Unheard}
        /\ unit' \in {Sched!NoUnit, unit}
    BY DEF Sched!Delete, Sched!RemovePlist, Sched!ReloadAfter, Sched!Step, Sched!Answer,
           Sched!Removed
  <1>3. promise' = Sched!NoUnit => Sched!AtSignIn' = Sched!NoUnit
    <2>1. CASE ok /\ (Sched!Delete(ok) \/ Sched!RemovePlist(ok))
      <3>1. unit' = Sched!NoUnit
        BY <2>1 DEF Sched!Delete, Sched!RemovePlist
      <3> QED BY <3>1, PartsOfAUnit DEF Sched!AtSignIn, Sched!Effective
    <2>2. CASE ~ok /\ (Sched!Delete(ok) \/ Sched!RemovePlist(ok))
      BY <2>2, PartsOfAUnit DEF Sched!Delete, Sched!RemovePlist, Sched!Answer, Sched!Removed
    <2>3. CASE Sched!ReloadAfter(ok)
      <3>1. /\ promise' = Sched!Removed(op.took) /\ UNCHANGED <<manager, unit, enabled>>
        BY <2>3 DEF Sched!ReloadAfter, Sched!Answer
      <3>2. promise' = Sched!NoUnit => op.took
        BY <3>1, PartsOfAUnit DEF Sched!Removed
      <3>3. Sched!AtSignIn' = Sched!AtSignIn
        BY <3>1 DEF Sched!AtSignIn, Sched!Effective, Sched!Uses
      <3> QED BY <3>2, <3>3 DEF ScheduleInv, CallFits
    <2> QED BY <2>1, <2>2, <2>3
  <1>4. PromiseIsKept'
    BY <1>2, <1>3, PartsOfAUnit DEF PromiseIsKept
  <1>5. loaded' \in Sched!Specs \union {Sched!NoUnit}
    BY <1>1, WhatTheyComeTo
    DEF Sched!Delete, Sched!RemovePlist, Sched!ReloadAfter, Sched!Reloaded
  <1> QED BY <1>1, <1>2, <1>4, <1>5, PartsOfAUnit, CallEnds

LEMMA ScheduleStarts ==
    ASSUME PlainWords, Managers \subseteq {"schtasks", "launchd", "systemd"},
           Sched!ScheduleInit
    PROVE  ScheduleInv
  <1>1. /\ manager \in {"schtasks", "launchd", "systemd"} /\ loaded = Sched!NoUnit
        /\ unit = Sched!NoUnit /\ enabled = FALSE /\ op = Sched!NoOp /\ promise = Sched!Open
    BY DEF Sched!ScheduleInit
  <1>2. "none" \notin Creating \union Undoing /\ "none" \notin FilesThere
    BY DEF Creating, FirstFiles, FilesThere, Undoing
  <1> QED BY <1>1, <1>2, PartsOfAUnit DEF ScheduleInv, ScheduleTyped, CallFits, PromiseIsKept

LEMMA ScheduleKeeps ==
    ASSUME ScheduleInv, PlainWords, Sched!ScheduleNext \/ UNCHANGED scheduleVars
    PROVE  ScheduleInv'
  <1>1. /\ unit \in Units /\ enabled \in BOOLEAN /\ op \in Calls
        /\ loaded \in Sched!Specs \union {Sched!NoUnit}
        /\ manager \in {"schtasks", "launchd", "systemd"}
    BY DEF ScheduleInv, ScheduleTyped
  <1>2. CASE Sched!OpFails
    <2>1. /\ op.pc # "none" /\ op' = Sched!NoOp
          /\ UNCHANGED <<manager, unit, loaded, enabled, promise>>
      BY <1>2 DEF Sched!OpFails, Sched!Step
    <2>2. promise' = Sched!Open
      BY <2>1 DEF ScheduleInv, CallFits
    <2> QED BY <1>1, <2>1, <2>2, CallEnds, NothingIsPromised
  <1>3. CASE Sched!SignIn
    <2>1. /\ loaded' = Sched!AtSignIn /\ op' = Sched!NoOp
          /\ UNCHANGED <<manager, unit, enabled, promise>>
      BY <1>3 DEF Sched!SignIn
    <2>2. Sched!AtSignIn' = Sched!AtSignIn
      BY <2>1 DEF Sched!AtSignIn, Sched!Effective, Sched!Uses
    <2>3. promise \in Sched!Specs => loaded' = promise
      BY <2>1 DEF ScheduleInv, PromiseIsKept, Sched!AtSignIn, Sched!Effective, Sched!Uses
    <2>4. PromiseIsKept'
      BY <2>1, <2>2, <2>3 DEF ScheduleInv, PromiseIsKept
    <2> QED BY <1>1, <2>1, <2>4, WhatTheyComeTo, CallEnds
  <1>4. CASE UNCHANGED scheduleVars
    <2>1. Sched!AtSignIn' = Sched!AtSignIn
      BY <1>4 DEF scheduleVars, Sched!AtSignIn, Sched!Effective, Sched!Uses
    <2> QED BY <1>4, <2>1 DEF scheduleVars, ScheduleInv, ScheduleTyped, CallFits, PromiseIsKept
  <1>5. CASE Sched!ScheduleNext
    BY <1>2, <1>3, <1>5, CallsBegin, NoneFoundKeeps, CreatingKeeps, CreatedIsThere,
       RemovingKeeps, RemovalAnswers
    DEF Sched!ScheduleNext
  <1> QED BY <1>4, <1>5

LEMMA WhatWasAnswered ==
    ASSUME ScheduleInv PROVE AnswersHold
  <1>1. promise \in Sched!Specs => Sched!AtSignIn = promise
    BY DEF ScheduleInv, PromiseIsKept, Sched!AtSignIn, Sched!Effective, Sched!Uses
  <1> QED BY <1>1
          DEF AnswersHold, Sched!AnswersHold, Sched!Uses, ScheduleInv, PromiseIsKept

-----------------------------------------------------------------------------
(***************************************************************************)
(* The cleaner.  First its bytes, a sum over a set that takes one file     *)
(* after the other: in whatever order, it is the same, and of two sets     *)
(* that are apart it is the sum of both.                                   *)
(***************************************************************************)
OneOf(s) == CHOOSE f \in s : TRUE

\* g adds up the bytes of all sets of files of at most n members.
AddsUpTo(g, n) ==
    \A s \in SUBSET Cleaner!Files :
        Cardinality(s) <= n => g[s] = IF s = {} THEN 0 ELSE Size[OneOf(s)] + g[s \ {OneOf(s)}]

LEMMA SetsOfFiles ==
    /\ Size \in [Cleaner!Files -> Nat] /\ IsFiniteSet(Cleaner!Files)
    /\ \A s \in SUBSET Cleaner!Files :
           /\ IsFiniteSet(s) /\ Cardinality(s) \in Nat
           /\ Cardinality(s) = 0 <=> s = {}
           /\ Cardinality(s) <= Cardinality(Cleaner!Files)
           /\ s # {} => OneOf(s) \in s
           /\ \A f \in s : s \ {f} \in SUBSET Cleaner!Files /\ Cardinality(s \ {f}) = Cardinality(s) - 1
  <1>1. IsFiniteSet(Cleaner!Files)
    BY TreeAssumption, FS_Difference DEF Cleaner!Files
  <1>2. ASSUME NEW s \in SUBSET Cleaner!Files
        PROVE  /\ IsFiniteSet(s) /\ Cardinality(s) \in Nat
               /\ Cardinality(s) = 0 <=> s = {}
               /\ Cardinality(s) <= Cardinality(Cleaner!Files)
               /\ s # {} => OneOf(s) \in s
               /\ \A f \in s : /\ s \ {f} \in SUBSET Cleaner!Files
                               /\ Cardinality(s \ {f}) = Cardinality(s) - 1
    <2>1. IsFiniteSet(s) /\ Cardinality(s) <= Cardinality(Cleaner!Files)
      BY <1>1, FS_Subset
    <2>2. Cardinality(s) \in Nat /\ (Cardinality(s) = 0 <=> s = {})
      BY <2>1, FS_CardinalityType, FS_EmptySet
    <2>3. \A f \in s : Cardinality(s \ {f}) = Cardinality(s) - 1
      BY <2>1, FS_RemoveElement
    <2>4. s # {} => OneOf(s) \in s
      BY DEF OneOf
    <2> QED BY <2>1, <2>2, <2>3, <2>4
  <1> QED BY <1>1, <1>2, TreeAssumption DEF Cleaner!Files

\* Of sets of files, one has the fewest members.
LEMMA FewestFiles ==
    ASSUME NEW T \in SUBSET (SUBSET Cleaner!Files), T # {}
    PROVE  \E s \in T : \A r \in SUBSET Cleaner!Files : Cardinality(r) < Cardinality(s) => r \notin T
  <1> DEFINE N == {Cardinality(s) : s \in T}
  <1>1. N \in SUBSET Nat /\ N # {}
    BY SetsOfFiles
  <1> HIDE DEF N
  <1>2. PICK n \in N : \A k \in N : ~(<<k, n>> \in OpToRel(<, Nat))
    BY <1>1, NatLessThanWellFounded, WFMin, Zenon
  <1>3. \A k \in N : ~(k < n)
    BY <1>1, <1>2, Zenon DEF OpToRel
  <1> QED BY <1>3 DEF N

\* Such a function exists for any number of members, as it does for one less.
LEMMA SumsGoOn ==
    ASSUME NEW n \in Nat, NEW g \in [SUBSET Cleaner!Files -> Nat], AddsUpTo(g, n)
    PROVE  \E h \in [SUBSET Cleaner!Files -> Nat] : AddsUpTo(h, n + 1)
  <1> DEFINE h == [s \in SUBSET Cleaner!Files |->
                      IF s = {} THEN 0 ELSE Size[OneOf(s)] + g[s \ {OneOf(s)}]]
  <1>1. ASSUME NEW s \in SUBSET Cleaner!Files
        PROVE  (IF s = {} THEN 0 ELSE Size[OneOf(s)] + g[s \ {OneOf(s)}]) \in Nat
    <2>1. s # {} => Size[OneOf(s)] \in Nat /\ g[s \ {OneOf(s)}] \in Nat
      BY SetsOfFiles
    <2> QED BY <2>1
  <1>2. h \in [SUBSET Cleaner!Files -> Nat]
    BY <1>1
  <1>3. \A s \in SUBSET Cleaner!Files : Cardinality(s) <= n => h[s] = g[s]
    BY DEF AddsUpTo
  <1>4. ASSUME NEW s \in SUBSET Cleaner!Files, Cardinality(s) <= n + 1, s # {}
        PROVE  h[s] = Size[OneOf(s)] + h[s \ {OneOf(s)}]
    <2>1. s \ {OneOf(s)} \in SUBSET Cleaner!Files /\ Cardinality(s \ {OneOf(s)}) <= n
      BY <1>4, SetsOfFiles
    <2>2. h[s \ {OneOf(s)}] = g[s \ {OneOf(s)}]
      BY <1>3, <2>1
    <2> QED BY <1>4, <2>2
  <1>5. h[{}] = 0
    OBVIOUS
  <1> HIDE DEF h
  <1> QED BY <1>2, <1>4, <1>5 DEF AddsUpTo

LEMMA SumsExist ==
    \E g \in [SUBSET Cleaner!Files -> Nat] : AddsUpTo(g, Cardinality(Cleaner!Files))
  <1> DEFINE Sums(n) == \E g \in [SUBSET Cleaner!Files -> Nat] : AddsUpTo(g, n)
             Not == {n \in Nat : ~Sums(n)}
  <1>1. Sums(0)
    <2>1. [s \in SUBSET Cleaner!Files |-> 0] \in [SUBSET Cleaner!Files -> Nat]
      OBVIOUS
    <2>2. \A s \in SUBSET Cleaner!Files : Cardinality(s) <= 0 => s = {}
      BY SetsOfFiles
    <2>3. AddsUpTo([s \in SUBSET Cleaner!Files |-> 0], 0)
      BY <2>2 DEF AddsUpTo
    <2> QED BY <2>1, <2>3
  <1>2. \A n \in Nat : Sums(n) => Sums(n + 1)
    BY SumsGoOn
  <1> HIDE DEF Sums
  <1>3. ASSUME Not # {} PROVE FALSE
    <2>1. PICK n \in Not : \A k \in Not : ~(<<k, n>> \in OpToRel(<, Nat))
      BY <1>3, NatLessThanWellFounded, WFMin, Zenon
    <2>2. \A k \in Not : ~(k < n)
      <3>1. Not \subseteq Nat
        OBVIOUS
      <3> QED BY <2>1, <3>1, Zenon DEF OpToRel
    <2>3. n # 0
      BY <1>1, <2>1
    <2>4. n - 1 \in Nat /\ n - 1 < n /\ (n - 1) + 1 = n
      BY <2>3
    <2> QED BY <1>2, <2>1, <2>2, <2>4
  <1>4. Cardinality(Cleaner!Files) \in Nat
    BY SetsOfFiles
  <1> QED BY <1>3, <1>4 DEF Sums

\* The sum of the model is that of such a function.
LEMMA BytesAre ==
    ASSUME NEW g \in [SUBSET Cleaner!Files -> Nat], AddsUpTo(g, Cardinality(Cleaner!Files)),
           NEW S \in SUBSET Cleaner!Files
    PROVE  Cleaner!Bytes(S) = g[S]
  <1> DEFINE Body(f) == [s \in SUBSET S |->
                            IF s = {} THEN 0 ELSE Size[OneOf(s)] + f[s \ {OneOf(s)}]]
             iter == CHOOSE f : f = Body(f)
  <1>1. Cleaner!Bytes(S) = iter[S]
    BY DEF Cleaner!Bytes, Cleaner!MapThenSumSet, Cleaner!MapThenFoldSet, OneOf
  <1>2. \A s \in SUBSET S : s \in SUBSET Cleaner!Files
    OBVIOUS
  <1>3. \A s \in SUBSET S : g[s] = IF s = {} THEN 0 ELSE Size[OneOf(s)] + g[s \ {OneOf(s)}]
    BY <1>2, SetsOfFiles DEF AddsUpTo
  <1>4. \A s \in SUBSET S : s # {} => s \ {OneOf(s)} \in SUBSET S
    OBVIOUS
  <1>5. \E f : f = Body(f)
    <2> DEFINE f == [s \in SUBSET S |-> g[s]]
    <2>1. ASSUME NEW s \in SUBSET S
          PROVE  f[s] = IF s = {} THEN 0 ELSE Size[OneOf(s)] + f[s \ {OneOf(s)}]
      BY <1>3, <1>4
    <2>2. f = Body(f)
      BY <2>1
    <2> QED BY <2>2
  <1>6. iter = Body(iter)
    BY <1>5
  <1> HIDE DEF iter
  <1>7. \A s \in SUBSET S : iter[s] = IF s = {} THEN 0 ELSE Size[OneOf(s)] + iter[s \ {OneOf(s)}]
    BY <1>6
  <1> DEFINE Others == {s \in SUBSET S : iter[s] # g[s]}
  <1>8. ASSUME Others # {} PROVE FALSE
    <2>1. Others \in SUBSET (SUBSET Cleaner!Files)
      OBVIOUS
    <2> HIDE DEF Others
    <2>2. PICK s \in Others :
              \A r \in SUBSET Cleaner!Files : Cardinality(r) < Cardinality(s) => r \notin Others
      BY <1>8, <2>1, FewestFiles
    <2> USE DEF Others
    <2>3. s # {}
      BY <1>3, <1>7, <2>2
    <2>4. /\ s \ {OneOf(s)} \in SUBSET Cleaner!Files
          /\ Cardinality(s \ {OneOf(s)}) < Cardinality(s)
      <3>1. s \in SUBSET Cleaner!Files
        BY <2>2
      <3> QED BY <2>3, <3>1, SetsOfFiles
    <2>5. iter[s \ {OneOf(s)}] = g[s \ {OneOf(s)}]
      BY <1>4, <2>2, <2>3, <2>4
    <2> QED BY <1>3, <1>7, <2>2, <2>3, <2>5
  <1>9. S \in SUBSET S
    OBVIOUS
  <1> QED BY <1>1, <1>8, <1>9

\* Any member may be taken first.
LEMMA AnyFileFirst ==
    ASSUME NEW g \in [SUBSET Cleaner!Files -> Nat], AddsUpTo(g, Cardinality(Cleaner!Files))
    PROVE  \A s \in SUBSET Cleaner!Files : \A f \in s : g[s] = Size[f] + g[s \ {f}]
  <1> DEFINE Fine(s) == \A f \in s : g[s] = Size[f] + g[s \ {f}]
             Others == {s \in SUBSET Cleaner!Files : ~Fine(s)}
  <1>1. \A s \in SUBSET Cleaner!Files : s # {} => g[s] = Size[OneOf(s)] + g[s \ {OneOf(s)}]
    BY SetsOfFiles DEF AddsUpTo
  <1>2. ASSUME Others # {} PROVE FALSE
    <2>1. Others \in SUBSET (SUBSET Cleaner!Files)
      OBVIOUS
    <2> HIDE DEF Others
    <2>2. PICK s \in Others :
              \A r \in SUBSET Cleaner!Files : Cardinality(r) < Cardinality(s) => r \notin Others
      BY <1>2, <2>1, FewestFiles
    <2> USE DEF Others
    <2>3. PICK f \in s : g[s] # Size[f] + g[s \ {f}]
      BY <2>2
    <2> DEFINE d == OneOf(s)
    <2>4. s \in SUBSET Cleaner!Files /\ d \in s /\ g[s] = Size[d] + g[s \ {d}]
      <3>1. s \in SUBSET Cleaner!Files /\ s # {}
        BY <2>2, <2>3
      <3> QED BY <1>1, <3>1, SetsOfFiles
    <2> HIDE DEF d
    <2>5. f # d
      BY <2>3, <2>4
    <2>6. /\ s \ {d} \in SUBSET Cleaner!Files /\ Cardinality(s \ {d}) < Cardinality(s)
          /\ s \ {f} \in SUBSET Cleaner!Files /\ Cardinality(s \ {f}) < Cardinality(s)
      BY <2>3, <2>4, SetsOfFiles
    <2>7. Fine(s \ {d}) /\ Fine(s \ {f})
      BY <2>2, <2>6
    <2>8. f \in s \ {d} /\ d \in s \ {f}
      BY <2>3, <2>4, <2>5
    <2> DEFINE rest == (s \ {d}) \ {f}
    <2>9. (s \ {f}) \ {d} = rest /\ rest \in SUBSET Cleaner!Files
      BY <2>6
    <2>10. g[s \ {d}] = Size[f] + g[rest] /\ g[s \ {f}] = Size[d] + g[rest]
      BY <2>7, <2>8, <2>9
    <2>11. Size[f] \in Nat /\ Size[d] \in Nat /\ g[rest] \in Nat
      BY <2>3, <2>4, <2>9, SetsOfFiles
    <2> HIDE DEF rest
    <2> QED BY <2>3, <2>4, <2>10, <2>11
  <1> QED BY <1>2

LEMMA BytesOfBoth ==
    ASSUME NEW A \in SUBSET Cleaner!Files, NEW B \in SUBSET Cleaner!Files, A \intersect B = {}
    PROVE  Cleaner!Bytes(A \union B) = Cleaner!Bytes(A) + Cleaner!Bytes(B)
  <1>1. PICK g \in [SUBSET Cleaner!Files -> Nat] : AddsUpTo(g, Cardinality(Cleaner!Files))
    BY SumsExist
  <1>2. \A s \in SUBSET Cleaner!Files : \A f \in s : g[s] = Size[f] + g[s \ {f}]
    BY <1>1, AnyFileFirst
  <1>3. g[{}] = 0
    <2>1. {} \in SUBSET Cleaner!Files /\ Cardinality({}) <= Cardinality(Cleaner!Files)
      BY SetsOfFiles
    <2> QED BY <1>1, <2>1 DEF AddsUpTo
  <1> DEFINE Others == {s \in SUBSET B : g[A \union s] # g[A] + g[s]}
  <1>4. ASSUME Others # {} PROVE FALSE
    <2>1. Others \in SUBSET (SUBSET Cleaner!Files)
      OBVIOUS
    <2> HIDE DEF Others
    <2>2. PICK s \in Others :
              \A r \in SUBSET Cleaner!Files : Cardinality(r) < Cardinality(s) => r \notin Others
      BY <1>4, <2>1, FewestFiles
    <2> USE DEF Others
    <2>3. s \in SUBSET Cleaner!Files /\ A \union s \in SUBSET Cleaner!Files /\ g[A] \in Nat
      BY <2>2
    <2>4. s # {}
      <3>1. g[A \union s] # g[A] + g[s]
        BY <2>2
      <3>2. ASSUME s = {} PROVE g[A \union s] = g[A] + g[s]
        <4>1. A \union s = A /\ g[s] = 0
          BY <1>3, <3>2
        <4>2. g[A] + 0 = g[A]
          BY <2>3
        <4> QED BY <4>1, <4>2, Zenon
      <3> QED BY <3>1, <3>2
    <2>5. PICK f \in s : TRUE
      BY <2>4
    <2>6. /\ s \ {f} \in SUBSET Cleaner!Files /\ s \ {f} \in SUBSET B
          /\ Cardinality(s \ {f}) < Cardinality(s)
      BY <2>2, <2>3, <2>5, SetsOfFiles
    <2>7. g[A \union (s \ {f})] = g[A] + g[s \ {f}]
      BY <2>2, <2>6
    <2>8. (A \union s) \ {f} = A \union (s \ {f})
      BY <2>2, <2>5
    <2>9. g[A \union s] = Size[f] + g[A \union (s \ {f})] /\ g[s] = Size[f] + g[s \ {f}]
      BY <1>2, <2>3, <2>5, <2>8
    <2>10. Size[f] \in Nat /\ g[s \ {f}] \in Nat
      BY <2>3, <2>5, <2>6, SetsOfFiles
    <2>11. g[A \union s] # g[A] + g[s]
      BY <2>2
    <2> QED BY <2>3, <2>7, <2>9, <2>10, <2>11
  <1>5. g[A \union B] = g[A] + g[B]
    BY <1>4
  <1>6. A \union B \in SUBSET Cleaner!Files
    OBVIOUS
  <1> QED BY <1>1, <1>5, <1>6, BytesAre

LEMMA NoBytes == Cleaner!Bytes({}) = 0
  <1>1. PICK g \in [SUBSET Cleaner!Files -> Nat] : AddsUpTo(g, Cardinality(Cleaner!Files))
    BY SumsExist
  <1>2. {} \in SUBSET Cleaner!Files /\ Cardinality({}) <= Cardinality(Cleaner!Files)
    BY SetsOfFiles
  <1>3. g[{}] = 0
    BY <1>1, <1>2 DEF AddsUpTo
  <1> QED BY <1>1, <1>2, <1>3, BytesAre

LEMMA BytesCount ==
    ASSUME NEW A \in SUBSET Cleaner!Files, NEW B \in SUBSET Cleaner!Files
    PROVE  /\ Cleaner!Bytes(A) \in Nat
           /\ A \subseteq B => Cleaner!Bytes(A) <= Cleaner!Bytes(B)
  <1>1. \A S \in SUBSET Cleaner!Files : Cleaner!Bytes(S) \in Nat
    <2>1. PICK g \in [SUBSET Cleaner!Files -> Nat] : AddsUpTo(g, Cardinality(Cleaner!Files))
      BY SumsExist
    <2> QED BY <2>1, BytesAre
  <1>2. ASSUME A \subseteq B PROVE Cleaner!Bytes(A) <= Cleaner!Bytes(B)
    <2> DEFINE rest == B \ A
    <2>1. rest \in SUBSET Cleaner!Files /\ A \intersect rest = {} /\ A \union rest = B
      BY <1>2
    <2> HIDE DEF rest
    <2>2. Cleaner!Bytes(B) = Cleaner!Bytes(A) + Cleaner!Bytes(rest)
      BY <2>1, BytesOfBoth
    <2>3. Cleaner!Bytes(A) \in Nat /\ Cleaner!Bytes(rest) \in Nat
      BY <1>1, <2>1
    <2> QED BY <2>2, <2>3
  <1> QED BY <1>1, <1>2

(***************************************************************************)
(* What lies below a directory, of the nodes S.                            *)
(***************************************************************************)
Kids(S, n) == {m \in S : n \in Dirs /\ Parent[m] = n}
Reach(S, n) ==
    LET one == Kids(S, n)
        two == UNION {Kids(S, m) : m \in one}
    IN  one \union two \union UNION {Kids(S, m) : m \in two}

FilesIn(S, n) == ({n} \union Reach(S, n)) \intersect S \intersect Cleaner!Files

LEMMA BelowIsReach ==
    \A n : /\ Cleaner!Children(n) = Kids(there, n)
           /\ Cleaner!Below(n) = Reach(there, n)
           /\ Cleaner!FilesOf(n) = FilesIn(there, n)
  BY DEF Cleaner!Children, Cleaner!Below, Cleaner!FilesOf, Kids, Reach, FilesIn

LEMMA ReachGrows ==
    ASSUME NEW S, NEW T, S \subseteq T, NEW n PROVE Reach(S, n) \subseteq Reach(T, n)
  <1>1. \A k : Kids(S, k) \subseteq Kids(T, k)
    BY DEF Kids
  <1> DEFINE one == Kids(S, n)
             two == UNION {Kids(S, m) : m \in one}
             one2 == Kids(T, n)
             two2 == UNION {Kids(T, m) : m \in one2}
  <1>2. one \subseteq one2
    BY <1>1
  <1>3. two \subseteq two2
    BY <1>1, <1>2
  <1>4. UNION {Kids(S, m) : m \in two} \subseteq UNION {Kids(T, m) : m \in two2}
    BY <1>1, <1>3
  <1> QED BY <1>2, <1>3, <1>4 DEF Reach

\* Taking away what nothing lies below leaves the way to all the others.
LEMMA ReachStays ==
    ASSUME NEW S, NEW x, Kids(S, x) = {}, NEW n
    PROVE  Reach(S, n) \ {x} \subseteq Reach(S \ {x}, n)
  <1> DEFINE T == S \ {x}
             one == Kids(S, n)
             two == UNION {Kids(S, m) : m \in one}
             one2 == Kids(T, n)
             two2 == UNION {Kids(T, m) : m \in one2}
  <1>1. \A k : Kids(T, k) = Kids(S, k) \ {x}
    BY DEF Kids
  <1> HIDE DEF T
  <1>2. one2 = one \ {x}
    BY <1>1
  <1>3. two2 = two \ {x}
    BY <1>1, <1>2
  <1>4. ASSUME NEW m \in (UNION {Kids(S, k) : k \in two}) \ {x}
        PROVE  m \in UNION {Kids(T, k) : k \in two2}
    <2>1. PICK k \in two : m \in Kids(S, k)
      OBVIOUS
    <2>2. k # x
      BY <2>1
    <2> QED BY <1>1, <1>3, <2>1, <2>2
  <1>5. Reach(S, n) = one \union two \union UNION {Kids(S, m) : m \in two}
    BY DEF Reach
  <1>6. Reach(T, n) = one2 \union two2 \union UNION {Kids(T, m) : m \in two2}
    BY DEF Reach
  <1>7. Reach(S, n) \ {x} \subseteq Reach(T, n)
    BY <1>2, <1>3, <1>4, <1>5, <1>6
  <1> QED BY <1>7 DEF T

\* What lies below an entry: its way up ends at the entry, and no link is on it.
LEMMA BelowAnEntry ==
    ASSUME NEW S \in SUBSET Nodes, NEW n \in Nodes, Parent[n] \in Categories,
           NEW m \in {n} \union Reach(S, n)
    PROVE  /\ m \in Nodes /\ Cleaner!Entry(m) = n
           /\ (Cleaner!Way(m) \ {m}) \intersect Links = {}
  <1>1. Dirs \subseteq Nodes /\ Dirs \intersect Links = {} /\ Categories \intersect Nodes = {}
    BY TreeAssumption
  <1>2. Cleaner!Above(n) = n
    BY <1>1 DEF Cleaner!Above
  <1>3. ASSUME NEW k, NEW x \in Kids(S, k)
        PROVE  x \in Nodes /\ Cleaner!Above(x) = k /\ k \in Dirs
    BY <1>1 DEF Kids, Cleaner!Above
  <1> DEFINE one == Kids(S, n)
             two == UNION {Kids(S, k) : k \in one}
             three == UNION {Kids(S, k) : k \in two}
  <1>4. m = n \/ m \in one \/ m \in two \/ m \in three
    BY DEF Reach
  <1>5. CASE m = n
    BY <1>2, <1>5 DEF Cleaner!Entry, Cleaner!Way
  <1>6. CASE m \in one
    <2>1. m \in Nodes /\ Cleaner!Above(m) = n /\ n \in Dirs
      BY <1>3, <1>6
    <2> QED BY <1>1, <1>2, <2>1 DEF Cleaner!Entry, Cleaner!Way
  <1>7. CASE m \in two
    <2>1. PICK k \in one : m \in Kids(S, k)
      BY <1>7
    <2>2. m \in Nodes /\ Cleaner!Above(m) = k /\ k \in Dirs
      BY <1>3, <2>1
    <2>3. Cleaner!Above(k) = n /\ n \in Dirs
      BY <1>3, <2>1
    <2> QED BY <1>1, <1>2, <2>2, <2>3 DEF Cleaner!Entry, Cleaner!Way
  <1>8. CASE m \in three
    <2>1. PICK k \in two : m \in Kids(S, k)
      BY <1>8
    <2>2. PICK j \in one : k \in Kids(S, j)
      BY <2>1
    <2>3. m \in Nodes /\ Cleaner!Above(m) = k /\ k \in Dirs
      BY <1>3, <2>1
    <2>4. Cleaner!Above(k) = j /\ j \in Dirs /\ Cleaner!Above(j) = n /\ n \in Dirs
      BY <1>3, <2>2
    <2> QED BY <1>1, <1>2, <2>3, <2>4 DEF Cleaner!Entry, Cleaner!Way
  <1> QED BY <1>4, <1>5, <1>6, <1>7, <1>8

(***************************************************************************)
(* What holds of the cleaner throughout.  Its choice is kept by the        *)
(* entries it still has to remove and by the directory it is emptying; and *)
(* of the files it has measured there, those that are left lie in it.      *)
(***************************************************************************)
Permitted == ((named \union Default) \ ReportOnly) \ unsafe
Chosen(n) == n \in Matching /\ Parent[n] \in Categories \intersect Permitted

Cleanings ==
    [pc : {"none", "choosing", "removing", "emptying"}, todo : SUBSET Categories,
     nodes : SUBSET Nodes, asked : {"no", "answered", "failed"}, dir : Dirs \union {"none"},
     files : SUBSET Cleaner!Files]

CleanTyped ==
    /\ there \in SUBSET Nodes /\ lost \in SUBSET Nodes /\ removed \in SUBSET lost
    /\ there \intersect lost = {}
    /\ offered \in SUBSET Categories /\ named \in SUBSET Categories
    /\ clean \in Cleanings /\ reported \in Nat

\* What waits to be removed.
CleanFits ==
    /\ clean.todo \subseteq named \union Default
    /\ clean.nodes # {} => clean.pc \in {"removing", "emptying"}
    /\ \A n \in clean.nodes : Chosen(n)

\* The directory that is being emptied.
Emptied ==
    IF clean.pc = "emptying"
    THEN /\ clean.dir \in Dirs /\ Chosen(clean.dir)
         /\ clean.files \subseteq there \union lost
         /\ clean.files \intersect there \subseteq FilesIn(there, clean.dir)
         /\ Cleaner!Meddled \/ FilesIn(there, clean.dir) \subseteq clean.files
    ELSE clean.files = {}

RightlyGone ==
    \A n \in removed :
        /\ Cleaner!Entry(n) \in Matching /\ Parent[Cleaner!Entry(n)] \in Permitted
        /\ (Cleaner!Way(n) \ {n}) \intersect Links = {}

\* The files of a directory that is being emptied are counted at its end.
Counted ==
    /\ reported <= Cleaner!Bytes((lost \intersect Cleaner!Files) \ clean.files)
    /\ \/ Cleaner!Meddled
       \/ reported = Cleaner!Bytes((removed \intersect Cleaner!Files) \ clean.files)

CleanInv == CleanTyped /\ CleanFits /\ Emptied /\ RightlyGone /\ Counted

\* The promise of the cleaner follows.
LEMMA OnlyTheChosenFollows == CleanInv => Cleaner!OnlyTheChosen
  <1> SUFFICES ASSUME CleanInv PROVE Cleaner!OnlyTheChosen
    OBVIOUS
  <1> DEFINE L == lost \intersect Cleaner!Files
             R == removed \intersect Cleaner!Files
  <1>1. RightlyGone /\ Counted /\ Emptied /\ CleanTyped
    BY DEF CleanInv
  <1>2. L \in SUBSET Cleaner!Files /\ L \ clean.files \in SUBSET Cleaner!Files
    OBVIOUS
  <1>3. /\ Cleaner!Bytes(L) \in Nat /\ Cleaner!Bytes(L \ clean.files) \in Nat
        /\ Cleaner!Bytes(L \ clean.files) <= Cleaner!Bytes(L)
    <2>1. L \ clean.files \subseteq L
      OBVIOUS
    <2> QED BY <1>2, <2>1, BytesCount
  <1>4. reported \in Nat /\ reported <= Cleaner!Bytes(L \ clean.files)
    BY <1>1 DEF CleanTyped, Counted
  <1>5. reported <= Cleaner!Bytes(L)
    <2> HIDE DEF L
    <2> QED BY <1>3, <1>4
  <1>6. Cleaner!Meddled \/ Cleaner!In("emptying") \/ reported = Cleaner!Bytes(R)
    <2>1. CASE clean.pc = "emptying"
      BY <2>1 DEF Cleaner!In
    <2>2. CASE clean.pc # "emptying"
      <3>1. R \ clean.files = R
        BY <1>1, <2>2 DEF Emptied
      <3> QED BY <1>1, <3>1 DEF Counted
    <2> QED BY <2>1, <2>2
  <1> QED BY <1>1, <1>5, <1>6 DEF Cleaner!OnlyTheChosen, RightlyGone, Permitted

LEMMA CleaningStarts == ASSUME Cleaner!CleaningInit PROVE CleanInv
  <1>1. /\ there = Nodes \ Later /\ offered = {} /\ named = {} /\ clean = Cleaner!NoClean
        /\ removed = {} /\ lost = {} /\ reported = 0
    BY DEF Cleaner!CleaningInit
  <1>2. CleanTyped
    BY <1>1 DEF CleanTyped, Cleanings, Cleaner!NoClean
  <1>3. CleanFits /\ Emptied
    BY <1>1 DEF CleanFits, Emptied, Cleaner!NoClean
  <1>4. RightlyGone
    BY <1>1 DEF RightlyGone
  <1>5. Counted
    <2>1. /\ (lost \intersect Cleaner!Files) \ clean.files = {}
          /\ (removed \intersect Cleaner!Files) \ clean.files = {}
      BY <1>1
    <2> QED BY <1>1, <2>1, NoBytes DEF Counted
  <1> QED BY <1>2, <1>3, <1>4, <1>5 DEF CleanInv

\* A step that changes nothing but the choice, and what programs hold open.
LEMMA CleaningGoesOn ==
    ASSUME CleanInv,
           there' = there, removed' = removed, lost' = lost, reported' = reported,
           unsafe' = unsafe, named \subseteq named',
           named' \in SUBSET Categories, offered' \in SUBSET Categories, clean' \in Cleanings,
           clean'.todo \subseteq named' \union Default,
           clean'.nodes # {} => clean'.pc \in {"removing", "emptying"},
           \A n \in clean'.nodes : Chosen(n),
           clean'.pc = "emptying" <=> clean.pc = "emptying",
           clean'.files = clean.files,
           clean'.pc = "emptying" => clean'.dir = clean.dir
    PROVE  CleanInv'
  <1>1. Permitted \subseteq Permitted'
    BY DEF Permitted
  <1>2. CleanTyped'
    BY DEF CleanInv, CleanTyped
  <1>3. \A n : Chosen(n) => Chosen(n)'
    BY <1>1 DEF Chosen
  <1>4. CleanFits'
    BY <1>3 DEF CleanFits
  <1>5. Cleaner!Meddled' <=> Cleaner!Meddled
    BY DEF Cleaner!Meddled
  <1>6. Emptied'
    BY <1>3, <1>5 DEF CleanInv, Emptied
  <1>7. RightlyGone'
    BY <1>1 DEF CleanInv, RightlyGone
  <1>8. Counted'
    BY <1>5 DEF CleanInv, Counted
  <1> QED BY <1>2, <1>4, <1>6, <1>7, <1>8 DEF CleanInv

\* Of what is chosen, the entry and all below it may be removed.
LEMMA ChosenIsRightlyGone ==
    ASSUME NEW d \in Nodes, Chosen(d), there \in SUBSET Nodes,
           NEW m \in {d} \union Reach(there, d)
    PROVE  /\ m \in Nodes
           /\ Cleaner!Entry(m) \in Matching /\ Parent[Cleaner!Entry(m)] \in Permitted
           /\ (Cleaner!Way(m) \ {m}) \intersect Links = {}
  BY BelowAnEntry DEF Chosen

\* Without a change by another program, what has gone is what was removed.
LEMMA MeddledStays ==
    ASSUME NEW n \in there, there' = there \ {n}, removed' = removed \union {n},
           lost' = lost \union {n}
    PROVE  Cleaner!Meddled \/ Cleaner!Meddled' \/ (lost = removed /\ lost' = removed')
  BY DEF Cleaner!Meddled

LEMMA MeddledBefore ==
    ASSUME NEW n \in there, there' = there \ {n}, removed' = removed \union {n},
           lost' = lost \union {n}, CleanTyped, Cleaner!Meddled
    PROVE  Cleaner!Meddled'
  <1>1. CASE lost # removed
    <2>1. removed \subseteq lost /\ n \notin lost
      BY DEF CleanTyped
    <2> QED BY <1>1, <2>1 DEF Cleaner!Meddled
  <1>2. CASE Later \intersect (there \union lost) # {}
    BY <1>2 DEF Cleaner!Meddled
  <1> QED BY <1>1, <1>2 DEF Cleaner!Meddled

\* An entry or something below it goes, and the choice goes on.
LEMMA GoesRightly ==
    ASSUME CleanInv, NEW d \in Nodes, Chosen(d), NEW n \in {d} \union Reach(there, d),
           Cleaner!Removes(n), unsafe' = unsafe, named' = named, offered' = offered,
           clean' \in Cleanings, reported' \in Nat,
           clean'.todo = clean.todo, clean'.nodes \subseteq clean.nodes,
           clean'.pc \in {"removing", "emptying"}
    PROVE  CleanTyped' /\ CleanFits' /\ RightlyGone'
  <1>1. /\ n \in there /\ there' = there \ {n} /\ removed' = removed \union {n}
        /\ lost' = lost \union {n}
    BY DEF Cleaner!Removes, Cleaner!CanGo
  <1>2. CleanTyped'
    BY <1>1 DEF CleanInv, CleanTyped
  <1>3. CleanFits'
    BY DEF CleanInv, CleanFits, Chosen, Permitted
  <1>4. Permitted' = Permitted
    BY DEF Permitted
  <1>5. /\ Cleaner!Entry(n) \in Matching /\ Parent[Cleaner!Entry(n)] \in Permitted
        /\ (Cleaner!Way(n) \ {n}) \intersect Links = {}
    BY ChosenIsRightlyGone DEF CleanInv, CleanTyped
  <1>6. RightlyGone'
    BY <1>1, <1>4, <1>5 DEF CleanInv, RightlyGone
  <1> QED BY <1>2, <1>3, <1>6

LEMMA RemovesAnEntry ==
    ASSUME CleanInv, NEW n \in Nodes, Cleaner!RemoveOne(n) PROVE CleanInv'
  <1> DEFINE r == [clean EXCEPT !.nodes = @ \ {n}]
             F == Cleaner!Files
             one == {n} \intersect F
  <1>1. clean \in Cleanings /\ reported \in Nat /\ clean.pc = "removing" /\ n \in clean.nodes
    BY DEF CleanInv, CleanTyped, Cleaner!RemoveOne, Cleaner!In
  <1>2. /\ r \in Cleanings /\ r.pc = clean.pc /\ r.todo = clean.todo /\ r.files = clean.files
        /\ r.nodes = clean.nodes \ {n} /\ clean' = r
    BY <1>1 DEF Cleanings, Cleaner!RemoveOne
  <1> HIDE DEF r
  <1>3. /\ n \notin Dirs /\ Cleaner!Removes(n) /\ reported' = reported + Cleaner!Bytes(one)
        /\ unsafe' = unsafe /\ named' = named /\ offered' = offered
    BY DEF Cleaner!RemoveOne
  <1>4. Cleaner!Bytes(one) \in Nat /\ reported' \in Nat
    <2>1. one \in SUBSET F
      OBVIOUS
    <2>2. Cleaner!Bytes(one) \in Nat
      BY <2>1, BytesCount
    <2> QED BY <1>1, <1>3, <2>2
  <1>5. Chosen(n)
    BY <1>1 DEF CleanInv, CleanFits
  <1>6. CleanTyped' /\ CleanFits' /\ RightlyGone'
    BY <1>1, <1>2, <1>3, <1>4, <1>5, GoesRightly
  <1>7. clean.files = {} /\ Emptied'
    BY <1>1, <1>2 DEF CleanInv, Emptied
  <1>8. /\ n \in there /\ there' = there \ {n} /\ removed' = removed \union {n}
        /\ lost' = lost \union {n} /\ n \notin lost /\ removed \subseteq lost
    BY <1>3 DEF Cleaner!Removes, Cleaner!CanGo, CleanInv, CleanTyped
  <1>9. ASSUME NEW S \in SUBSET Nodes, n \notin S
        PROVE  Cleaner!Bytes((S \union {n}) \intersect F)
                   = Cleaner!Bytes(S \intersect F) + Cleaner!Bytes(one)
    <2>1. /\ S \intersect F \in SUBSET F /\ one \in SUBSET F
          /\ (S \intersect F) \intersect one = {}
          /\ (S \intersect F) \union one = (S \union {n}) \intersect F
      BY <1>9
    <2> HIDE DEF F, one
    <2> QED BY <2>1, BytesOfBoth DEF F
  <1>10. /\ Cleaner!Bytes(lost' \intersect F) = Cleaner!Bytes(lost \intersect F) + Cleaner!Bytes(one)
         /\ Cleaner!Bytes(removed' \intersect F)
                = Cleaner!Bytes(removed \intersect F) + Cleaner!Bytes(one)
    <2>1. lost \in SUBSET Nodes /\ removed \in SUBSET Nodes
      BY DEF CleanInv, CleanTyped
    <2> HIDE DEF F, one
    <2> QED BY <1>8, <1>9, <2>1
  <1>11. /\ Cleaner!Bytes(lost \intersect F) \in Nat /\ reported <= Cleaner!Bytes(lost \intersect F)
         /\ Cleaner!Meddled \/ reported = Cleaner!Bytes(removed \intersect F)
    <2>1. /\ (lost \intersect F) \ clean.files = lost \intersect F
          /\ (removed \intersect F) \ clean.files = removed \intersect F
      BY <1>7
    <2>2. lost \intersect F \in SUBSET F
      OBVIOUS
    <2>3. Cleaner!Bytes(lost \intersect F) \in Nat
      BY <2>2, BytesCount
    <2> QED BY <2>1, <2>3 DEF CleanInv, Counted
  <1>12. reported' <= Cleaner!Bytes(lost' \intersect F)
    <2> HIDE DEF F, one
    <2> QED BY <1>1, <1>3, <1>4, <1>10, <1>11
  <1>13. Cleaner!Meddled' \/ reported' = Cleaner!Bytes(removed' \intersect F)
    <2>1. Cleaner!Meddled => Cleaner!Meddled'
      BY <1>8, MeddledBefore DEF CleanInv
    <2> HIDE DEF F, one
    <2> QED BY <1>3, <1>10, <1>11, <2>1
  <1>14. clean'.files = {}
    BY <1>2, <1>7
  <1>15. Counted'
    <2>1. /\ (lost' \intersect F) \ clean'.files = lost' \intersect F
          /\ (removed' \intersect F) \ clean'.files = removed' \intersect F
      BY <1>14
    <2> QED BY <1>12, <1>13, <2>1 DEF Counted
  <1> QED BY <1>6, <1>7, <1>15 DEF CleanInv

LEMMA MeasuresADirectory ==
    ASSUME CleanInv, NEW n \in Nodes, Cleaner!Measure(n) PROVE CleanInv'
  <1> DEFINE r == [clean EXCEPT !.pc = "emptying", !.nodes = @ \ {n}, !.dir = n,
                                !.files = Cleaner!FilesOf(n)]
  <1>1. /\ clean \in Cleanings /\ clean.pc = "removing" /\ n \in clean.nodes /\ n \in Dirs
        /\ Cleaner!FilesOf(n) \in SUBSET Cleaner!Files
        /\ Cleaner!FilesOf(n) \subseteq there
    BY DEF CleanInv, CleanTyped, Cleaner!Measure, Cleaner!In, Cleaner!FilesOf
  <1>2. /\ r \in Cleanings /\ r.pc = "emptying" /\ r.todo = clean.todo
        /\ r.files = Cleaner!FilesOf(n) /\ r.dir = n
        /\ r.nodes = clean.nodes \ {n} /\ clean' = r
    BY <1>1 DEF Cleanings, Cleaner!Measure
  <1> HIDE DEF r
  <1>3. UNCHANGED <<there, open, unsafe, live, offered, named, removed, lost, reported>>
    BY DEF Cleaner!Measure
  <1>4. CleanTyped'
    BY <1>2, <1>3 DEF CleanInv, CleanTyped
  <1>5. CleanFits'
    BY <1>2, <1>3 DEF CleanInv, CleanFits, Chosen, Permitted
  <1>6. RightlyGone'
    BY <1>3 DEF CleanInv, RightlyGone, Permitted
  <1>7. FilesIn(there', n) = Cleaner!FilesOf(n) /\ (Cleaner!Meddled' <=> Cleaner!Meddled)
    BY <1>3, BelowIsReach DEF Cleaner!Meddled
  <1>8. Emptied'
    <2>1. Chosen(n)'
      BY <1>1, <1>3 DEF CleanInv, CleanFits, Chosen, Permitted
    <2> QED BY <1>1, <1>2, <1>3, <1>7, <2>1 DEF Emptied
  <1>9. Counted'
    <2>1. clean.files = {}
      BY <1>1 DEF CleanInv, Emptied
    <2>2. lost \intersect clean'.files = {} /\ removed \intersect clean'.files = {}
      BY <1>1, <1>2 DEF CleanInv, CleanTyped
    <2>3. /\ (lost' \intersect Cleaner!Files) \ clean'.files
                 = (lost \intersect Cleaner!Files) \ clean.files
          /\ (removed' \intersect Cleaner!Files) \ clean'.files
                 = (removed \intersect Cleaner!Files) \ clean.files
      BY <1>3, <2>1, <2>2
    <2>4. Cleaner!Meddled' => Cleaner!Meddled
      BY <1>7
    <2>5. Cleaner!Meddled => Cleaner!Meddled'
      BY <1>7
    <2> QED BY <1>3, <2>3, <2>4, <2>5 DEF CleanInv, Counted
  <1> QED BY <1>4, <1>5, <1>6, <1>8, <1>9 DEF CleanInv

\* Of a directory that nothing lies below but a node that goes, the files that are left stay.
LEMMA LeavesTheOthers ==
    ASSUME NEW S \in SUBSET Nodes, NEW d \in Dirs, NEW n, Kids(S, n) = {},
           NEW M, M \intersect S \subseteq FilesIn(S, d)
    PROVE  /\ M \intersect (S \ {n}) \subseteq FilesIn(S \ {n}, d)
           /\ FilesIn(S \ {n}, d) \subseteq FilesIn(S, d)
  <1>1. d \notin Cleaner!Files
    BY DEF Cleaner!Files
  <1>2. Reach(S, d) \ {n} \subseteq Reach(S \ {n}, d)
    BY ReachStays
  <1>3. Reach(S \ {n}, d) \subseteq Reach(S, d)
    <2>1. S \ {n} \subseteq S
      OBVIOUS
    <2> QED BY <2>1, ReachGrows
  <1> QED BY <1>1, <1>2, <1>3 DEF FilesIn

LEMMA RemovesBelow ==
    ASSUME CleanInv, NEW n \in Nodes, Cleaner!RemoveBelow(n) PROVE CleanInv'
  <1> DEFINE d == clean.dir
  <1>1. /\ clean.pc = "emptying" /\ n \in Cleaner!Below(d) /\ Cleaner!Removes(n)
        /\ clean' = clean /\ reported' = reported
        /\ unsafe' = unsafe /\ named' = named /\ offered' = offered
    BY DEF Cleaner!RemoveBelow, Cleaner!In
  <1>2. /\ clean \in Cleanings /\ reported \in Nat /\ there \in SUBSET Nodes
        /\ removed \subseteq lost /\ there \intersect lost = {} /\ lost \in SUBSET Nodes
    BY DEF CleanInv, CleanTyped
  <1>3. /\ d \in Dirs /\ Chosen(d) /\ clean.files \subseteq there \union lost
        /\ clean.files \intersect there \subseteq FilesIn(there, d)
        /\ Cleaner!Meddled \/ FilesIn(there, d) \subseteq clean.files
    BY <1>1 DEF CleanInv, Emptied
  <1>4. clean.files \in SUBSET Cleaner!Files
    BY <1>2 DEF Cleanings
  <1> HIDE DEF d
  <1>5. d \in Nodes /\ n \in Reach(there, d)
    BY <1>1, <1>3, BelowIsReach, TreeAssumption
  <1>6. CleanTyped' /\ CleanFits' /\ RightlyGone'
    BY <1>1, <1>2, <1>3, <1>5, GoesRightly
  <1>7. /\ n \in there /\ Kids(there, n) = {} /\ there' = there \ {n}
        /\ removed' = removed \union {n} /\ lost' = lost \union {n}
    BY <1>1, BelowIsReach DEF Cleaner!Removes, Cleaner!CanGo
  <1>8. /\ clean.files \intersect there' \subseteq FilesIn(there', d)
        /\ FilesIn(there', d) \subseteq FilesIn(there, d)
    BY <1>2, <1>3, <1>7, LeavesTheOthers
  <1>9. Cleaner!Meddled => Cleaner!Meddled'
    BY <1>7, MeddledBefore DEF CleanInv
  <1>10. Emptied'
    <2>1. /\ clean'.dir = d /\ clean'.pc = "emptying" /\ clean'.files = clean.files
          /\ Permitted' = Permitted
      BY <1>1 DEF Permitted, d
    <2>2. clean.files \subseteq there' \union lost'
      BY <1>3, <1>7
    <2>3. Cleaner!Meddled' \/ FilesIn(there', d) \subseteq clean.files
      BY <1>3, <1>8, <1>9
    <2> QED BY <1>3, <1>8, <2>1, <2>2, <2>3 DEF Emptied, Chosen
  <1>11. Counted'
    <2> DEFINE L  == (lost \intersect Cleaner!Files) \ clean.files
               L2 == (lost' \intersect Cleaner!Files) \ clean.files
               R  == (removed \intersect Cleaner!Files) \ clean.files
               R2 == (removed' \intersect Cleaner!Files) \ clean.files
    <2>1. L \in SUBSET Cleaner!Files /\ L2 \in SUBSET Cleaner!Files /\ L \subseteq L2
      BY <1>7
    <2>2. reported <= Cleaner!Bytes(L)
      BY DEF CleanInv, Counted
    <2>3. /\ Cleaner!Bytes(L) \in Nat /\ Cleaner!Bytes(L2) \in Nat
          /\ Cleaner!Bytes(L) <= Cleaner!Bytes(L2)
      BY <2>1, BytesCount
    <2>4. reported <= Cleaner!Bytes(L2)
      <3> HIDE DEF L, L2
      <3> QED BY <1>2, <2>2, <2>3
    <2>5. Cleaner!Meddled' \/ reported = Cleaner!Bytes(R2)
      <3>1. CASE Cleaner!Meddled
        BY <1>9, <3>1
      <3>2. CASE ~Cleaner!Meddled
        <4>1. FilesIn(there, d) \subseteq clean.files
          BY <1>3, <3>2
        <4>2. n \in Cleaner!Files => n \in clean.files
          BY <1>5, <1>7, <4>1 DEF FilesIn
        <4>3. R2 = R
          BY <1>7, <4>2
        <4>4. reported = Cleaner!Bytes(R)
          BY <3>2 DEF CleanInv, Counted
        <4> QED BY <4>3, <4>4
      <3> QED BY <3>1, <3>2
    <2> QED BY <1>1, <2>4, <2>5 DEF Counted
  <1> QED BY <1>6, <1>10, <1>11 DEF CleanInv

\* The bytes that were measured count at the end: those that have gone, and no more.
LEMMA CountsAllThatWent ==
    ASSUME NEW G \in SUBSET Cleaner!Files, NEW M \in SUBSET Cleaner!Files
    PROVE  Cleaner!Bytes(G \ M) + Cleaner!Bytes(M \intersect G) = Cleaner!Bytes(G)
  <1> DEFINE rest == G \ M
             part == M \intersect G
  <1>1. /\ rest \in SUBSET Cleaner!Files /\ part \in SUBSET Cleaner!Files
        /\ rest \intersect part = {} /\ rest \union part = G
    OBVIOUS
  <1> HIDE DEF rest, part
  <1>2. Cleaner!Bytes(G) = Cleaner!Bytes(rest) + Cleaner!Bytes(part)
    BY <1>1, BytesOfBoth
  <1> QED BY <1>2 DEF rest, part

LEMMA CountsWhatWent ==
    ASSUME NEW G \in SUBSET Cleaner!Files, NEW M \in SUBSET Cleaner!Files,
           NEW r \in Nat, NEW counts \in Nat, counts <= Cleaner!Bytes(M \intersect G),
           r <= Cleaner!Bytes(G \ M)
    PROVE  r + counts <= Cleaner!Bytes(G)
  <1>1. Cleaner!Bytes(G) = Cleaner!Bytes(G \ M) + Cleaner!Bytes(M \intersect G)
    BY CountsAllThatWent
  <1>2. Cleaner!Bytes(G \ M) \in Nat /\ Cleaner!Bytes(M \intersect G) \in Nat
    <2>1. G \ M \in SUBSET Cleaner!Files /\ M \intersect G \in SUBSET Cleaner!Files
      OBVIOUS
    <2> QED BY <2>1, BytesCount
  <1>3. \A a, b \in Nat : r <= a /\ counts <= b => r + counts <= a + b
    OBVIOUS
  <1> QED BY <1>1, <1>2, <1>3

LEMMA RemovesTheDirectory == ASSUME CleanInv, Cleaner!RemoveDir PROVE CleanInv'
  <1> DEFINE r == [clean EXCEPT !.pc = "removing", !.dir = "none", !.files = {}]
             d == clean.dir
             M == clean.files
  <1>1. /\ clean \in Cleanings /\ reported \in Nat /\ clean.pc = "emptying"
        /\ there \in SUBSET Nodes /\ lost \in SUBSET Nodes /\ removed \subseteq lost
    BY DEF CleanInv, CleanTyped, Cleaner!RemoveDir, Cleaner!In
  <1>2. /\ r \in Cleanings /\ r.pc = "removing" /\ r.todo = clean.todo /\ r.files = {}
        /\ r.nodes = clean.nodes /\ clean' = r
    BY <1>1 DEF Cleanings, Cleaner!RemoveDir
  <1> HIDE DEF r
  <1>3. /\ Cleaner!Removes(d) /\ reported' = reported + Cleaner!Bytes(M)
        /\ unsafe' = unsafe /\ named' = named /\ offered' = offered
    BY DEF Cleaner!RemoveDir
  <1>4. /\ d \in Dirs /\ Chosen(d) /\ M \subseteq there \union lost
        /\ M \intersect there \subseteq FilesIn(there, d)
    BY <1>1 DEF CleanInv, Emptied
  <1>5. M \in SUBSET Cleaner!Files
    BY <1>1 DEF Cleanings
  <1> HIDE DEF d, M
  <1>6. d \in Nodes /\ d \notin Cleaner!Files
    BY <1>4, TreeAssumption DEF Cleaner!Files
  <1>7. /\ d \in there /\ Kids(there, d) = {} /\ there' = there \ {d}
        /\ removed' = removed \union {d} /\ lost' = lost \union {d}
    BY <1>3, BelowIsReach DEF Cleaner!Removes, Cleaner!CanGo
  <1>8. M \intersect there = {} /\ M \subseteq lost
    <2>1. Reach(there, d) = {}
      BY <1>7 DEF Reach
    <2>2. FilesIn(there, d) = {}
      BY <1>6, <2>1 DEF FilesIn
    <2> QED BY <1>4, <2>2
  <1>9. Cleaner!Bytes(M) \in Nat /\ reported' \in Nat
    <2>1. Cleaner!Bytes(M) \in Nat
      BY <1>5, BytesCount
    <2> QED BY <1>1, <1>3, <2>1
  <1>10. CleanTyped' /\ CleanFits' /\ RightlyGone'
    BY <1>2, <1>3, <1>4, <1>6, <1>9, GoesRightly
  <1>11. Emptied'
    BY <1>2 DEF Emptied
  <1>12. Cleaner!Meddled => Cleaner!Meddled'
    BY <1>7, MeddledBefore DEF CleanInv
  <1>13. Counted'
    <2> DEFINE L == lost \intersect Cleaner!Files
               R == removed \intersect Cleaner!Files
    <2>1. /\ (lost' \intersect Cleaner!Files) \ clean'.files = L
          /\ (removed' \intersect Cleaner!Files) \ clean'.files = R
      BY <1>2, <1>6, <1>7
    <2>2. L \in SUBSET Cleaner!Files /\ R \in SUBSET Cleaner!Files /\ M \intersect L = M
      BY <1>5, <1>8
    <2>3. /\ reported <= Cleaner!Bytes(L \ M)
          /\ Cleaner!Meddled \/ reported = Cleaner!Bytes(R \ M)
      BY DEF CleanInv, Counted, M
    <2>4. Cleaner!Meddled \/ R = L
      BY DEF Cleaner!Meddled
    <2> HIDE DEF L, R
    <2>5. Cleaner!Bytes(M) <= Cleaner!Bytes(M \intersect L)
      BY <1>9, <2>2
    <2>6. reported + Cleaner!Bytes(M) <= Cleaner!Bytes(L)
      BY <1>1, <1>5, <1>9, <2>2, <2>3, <2>5, CountsWhatWent
    <2>7. Cleaner!Meddled \/ reported + Cleaner!Bytes(M) = Cleaner!Bytes(R)
      <3>1. ASSUME ~Cleaner!Meddled PROVE reported + Cleaner!Bytes(M) = Cleaner!Bytes(R)
        <4>1. reported = Cleaner!Bytes(L \ M) /\ R = L
          BY <2>3, <2>4, <3>1
        <4>2. Cleaner!Bytes(M) = Cleaner!Bytes(M \intersect L)
          BY <2>2
        <4>3. reported + Cleaner!Bytes(M) = Cleaner!Bytes(L)
          BY <1>5, <2>2, <4>1, <4>2, CountsAllThatWent
        <4> QED BY <4>1, <4>3
      <3> QED BY <3>1
    <2>8. Cleaner!Meddled' \/ reported' = Cleaner!Bytes(R)
      BY <1>3, <1>12, <2>7
    <2>9. reported' <= Cleaner!Bytes(L)
      BY <1>3, <2>6
    <2> QED BY <2>1, <2>8, <2>9 DEF Counted
  <1> QED BY <1>10, <1>11, <1>13 DEF CleanInv

LEMMA MeasuresAgain == ASSUME CleanInv, Cleaner!Remeasure PROVE CleanInv'
  <1> DEFINE r == [clean EXCEPT !.pc = "removing", !.dir = "none", !.files = {}]
             d == clean.dir
             M == clean.files
             L == lost \intersect Cleaner!Files
             R == removed \intersect Cleaner!Files
             left == Cleaner!FilesOf(d)
             counts == Cleaner!WhatIsGone(Cleaner!Bytes(M), Cleaner!Bytes(left))
  <1>1. /\ clean \in Cleanings /\ reported \in Nat /\ clean.pc = "emptying"
        /\ there \in SUBSET Nodes /\ lost \in SUBSET Nodes /\ removed \subseteq lost
        /\ there \intersect lost = {}
    BY DEF CleanInv, CleanTyped, Cleaner!Remeasure, Cleaner!In
  <1>2. /\ r \in Cleanings /\ r.pc = "removing" /\ r.todo = clean.todo /\ r.files = {}
        /\ r.nodes = clean.nodes /\ clean' = r
    BY <1>1 DEF Cleanings, Cleaner!Remeasure
  <1> HIDE DEF r
  <1>3. /\ UNCHANGED <<there, open, unsafe, live, offered, named, removed, lost>>
        /\ reported' = reported + counts
    BY DEF Cleaner!Remeasure
  <1>4. /\ M \subseteq there \union lost /\ M \intersect there \subseteq left
        /\ Cleaner!Meddled \/ left \subseteq M
    BY <1>1, BelowIsReach DEF CleanInv, Emptied
  <1>5. /\ reported <= Cleaner!Bytes(L \ M)
        /\ Cleaner!Meddled \/ reported = Cleaner!Bytes(R \ M)
        /\ Cleaner!Meddled \/ R = L
    BY DEF CleanInv, Counted, Cleaner!Meddled
  <1>6. /\ M \in SUBSET Cleaner!Files /\ left \in SUBSET Cleaner!Files /\ left \subseteq there
        /\ L \in SUBSET Cleaner!Files /\ L \subseteq lost
    BY <1>1 DEF Cleanings, Cleaner!FilesOf
  <1> DEFINE here == M \intersect there
             gone == M \intersect L
  <1>7. /\ here \in SUBSET Cleaner!Files /\ gone \in SUBSET Cleaner!Files
        /\ here \intersect gone = {} /\ here \union gone = M /\ here \subseteq left
        /\ Cleaner!Meddled \/ here = left
    BY <1>1, <1>4, <1>6
  <1> HIDE DEF M, L, R, left
  <1>8. Cleaner!Bytes(M) = Cleaner!Bytes(here) + Cleaner!Bytes(gone)
    <2> HIDE DEF here, gone
    <2> QED BY <1>7, BytesOfBoth
  <1>9. /\ Cleaner!Bytes(M) \in Nat /\ Cleaner!Bytes(left) \in Nat /\ Cleaner!Bytes(here) \in Nat
        /\ Cleaner!Bytes(gone) \in Nat /\ Cleaner!Bytes(here) <= Cleaner!Bytes(left)
    <2> HIDE DEF here, gone
    <2> QED BY <1>6, <1>7, BytesCount
  <1>10. /\ counts \in Nat /\ counts <= Cleaner!Bytes(gone)
         /\ Cleaner!Meddled \/ counts = Cleaner!Bytes(gone)
    <2>1. \A b, l, h, g \in Nat : b = h + g /\ h <= l
              => LET w == IF b < l THEN 0 ELSE b - l
                 IN  w \in Nat /\ w <= g /\ (h = l => w = g)
      OBVIOUS
    <2> HIDE DEF here, gone
    <2> QED BY <1>7, <1>8, <1>9, <2>1 DEF Cleaner!WhatIsGone
  <1> HIDE DEF counts
  <1>11. reported' \in Nat
    BY <1>1, <1>3, <1>10
  <1>12. CleanTyped'
    BY <1>2, <1>3, <1>11 DEF CleanInv, CleanTyped
  <1>13. CleanFits'
    BY <1>2, <1>3 DEF CleanInv, CleanFits, Chosen, Permitted
  <1>14. RightlyGone'
    BY <1>3 DEF CleanInv, RightlyGone, Permitted
  <1>15. Emptied'
    BY <1>2 DEF Emptied
  <1>16. /\ reported + counts <= Cleaner!Bytes(L)
         /\ Cleaner!Meddled \/ reported + counts = Cleaner!Bytes(R)
    <2>1. reported + counts <= Cleaner!Bytes(L)
      BY <1>1, <1>5, <1>6, <1>10, CountsWhatWent DEF gone
    <2>2. ASSUME ~Cleaner!Meddled PROVE reported + counts = Cleaner!Bytes(R)
      <3>1. reported = Cleaner!Bytes(L \ M) /\ R = L /\ counts = Cleaner!Bytes(M \intersect L)
        BY <1>5, <1>10, <2>2 DEF gone
      <3>2. reported + counts = Cleaner!Bytes(L)
        BY <1>6, <3>1, CountsAllThatWent
      <3> QED BY <3>1, <3>2
    <2> QED BY <2>1, <2>2
  <1>17. Counted'
    <2>1. /\ (lost' \intersect Cleaner!Files) \ clean'.files = L
          /\ (removed' \intersect Cleaner!Files) \ clean'.files = R
      BY <1>2, <1>3 DEF L, R
    <2>2. Cleaner!Meddled' <=> Cleaner!Meddled
      BY <1>3 DEF Cleaner!Meddled
    <2> QED BY <1>3, <1>16, <2>1, <2>2 DEF Counted
  <1> QED BY <1>12, <1>13, <1>14, <1>15, <1>17 DEF CleanInv

\* A file that another program creates or deletes.
LEMMA OthersCreate ==
    ASSUME CleanInv, NEW f \in Later, Cleaner!Creates(f) PROVE CleanInv'
  <1>1. /\ f \notin there \union lost /\ there' = there \union {f} /\ f \in Nodes
        /\ UNCHANGED <<open, unsafe, live, offered, named, clean, removed, lost, reported>>
    BY TreeAssumption DEF Cleaner!Creates
  <1>2. Cleaner!Meddled'
    BY <1>1 DEF Cleaner!Meddled
  <1>3. CleanTyped'
    BY <1>1 DEF CleanInv, CleanTyped
  <1>4. Permitted' = Permitted
    BY <1>1 DEF Permitted
  <1>5. CleanFits' /\ RightlyGone'
    BY <1>1, <1>4 DEF CleanInv, CleanFits, RightlyGone, Chosen
  <1>6. Emptied'
    <2>1. CASE clean.pc = "emptying"
      <3>1. /\ clean.dir \in Dirs /\ Chosen(clean.dir) /\ clean.files \subseteq there \union lost
            /\ clean.files \intersect there \subseteq FilesIn(there, clean.dir)
        BY <2>1 DEF CleanInv, Emptied
      <3>2. Reach(there, clean.dir) \subseteq Reach(there', clean.dir)
        <4>1. there \subseteq there'
          BY <1>1
        <4> QED BY <4>1, ReachGrows
      <3>3. clean.files \intersect there' \subseteq FilesIn(there', clean.dir)
        BY <1>1, <3>1, <3>2 DEF FilesIn
      <3> QED BY <1>1, <1>2, <1>4, <2>1, <3>1, <3>3 DEF Emptied, Chosen
    <2>2. CASE clean.pc # "emptying"
      BY <1>1, <2>2 DEF CleanInv, Emptied
    <2> QED BY <2>1, <2>2
  <1>7. Counted'
    BY <1>1, <1>2 DEF CleanInv, Counted
  <1> QED BY <1>3, <1>5, <1>6, <1>7 DEF CleanInv

LEMMA OthersDelete ==
    ASSUME CleanInv, NEW f \in Fleeting, Cleaner!Deletes(f) PROVE CleanInv'
  <1>1. /\ f \in there /\ there' = there \ {f} /\ lost' = lost \union {f}
        /\ UNCHANGED <<open, unsafe, live, offered, named, clean, removed, reported>>
    BY DEF Cleaner!Deletes
  <1>2. Cleaner!Meddled'
    <2>1. removed \subseteq lost /\ f \notin lost
      BY <1>1 DEF CleanInv, CleanTyped
    <2> QED BY <1>1, <2>1 DEF Cleaner!Meddled
  <1>3. CleanTyped'
    BY <1>1 DEF CleanInv, CleanTyped
  <1>4. Permitted' = Permitted
    BY <1>1 DEF Permitted
  <1>5. CleanFits' /\ RightlyGone'
    BY <1>1, <1>4 DEF CleanInv, CleanFits, RightlyGone, Chosen
  <1>6. Emptied'
    <2>1. CASE clean.pc = "emptying"
      <3>1. /\ clean.dir \in Dirs /\ Chosen(clean.dir) /\ clean.files \subseteq there \union lost
            /\ clean.files \intersect there \subseteq FilesIn(there, clean.dir)
        BY <2>1 DEF CleanInv, Emptied
      <3>2. Kids(there, f) = {} /\ there \in SUBSET Nodes
        BY TreeAssumption DEF Kids, CleanInv, CleanTyped
      <3>3. clean.files \intersect there' \subseteq FilesIn(there', clean.dir)
        BY <1>1, <3>1, <3>2, LeavesTheOthers
      <3> QED BY <1>1, <1>2, <1>4, <2>1, <3>1, <3>3 DEF Emptied, Chosen
    <2>2. CASE clean.pc # "emptying"
      BY <1>1, <2>2 DEF CleanInv, Emptied
    <2> QED BY <2>1, <2>2
  <1>7. reported' <= Cleaner!Bytes((lost' \intersect Cleaner!Files) \ clean'.files)
    <2> DEFINE L  == (lost \intersect Cleaner!Files) \ clean.files
               L2 == (lost' \intersect Cleaner!Files) \ clean.files
    <2>1. L \in SUBSET Cleaner!Files /\ L2 \in SUBSET Cleaner!Files /\ L \subseteq L2
      BY <1>1
    <2>2. reported <= Cleaner!Bytes(L) /\ reported \in Nat
      BY DEF CleanInv, CleanTyped, Counted
    <2>3. /\ Cleaner!Bytes(L) \in Nat /\ Cleaner!Bytes(L2) \in Nat
          /\ Cleaner!Bytes(L) <= Cleaner!Bytes(L2)
      BY <2>1, BytesCount
    <2>4. reported <= Cleaner!Bytes(L2)
      <3> HIDE DEF L, L2
      <3> QED BY <2>2, <2>3
    <2> QED BY <1>1, <2>4
  <1>8. Counted'
    BY <1>2, <1>7 DEF Counted
  <1> QED BY <1>3, <1>5, <1>6, <1>8 DEF CleanInv

\* Each step of the cleaner, and of the programs beside it.
LEMMA CleaningKeeps ==
    ASSUME CleanInv, Cleaner!CleaningNext \/ UNCHANGED cleaningVars PROVE CleanInv'
  <1> USE DEF Cleaner!In
  <1>0. /\ clean \in Cleanings /\ named \in SUBSET Categories /\ offered \in SUBSET Categories
        /\ clean.todo \subseteq named \union Default
        /\ clean.nodes # {} => clean.pc \in {"removing", "emptying"}
        /\ \A n \in clean.nodes : Chosen(n)
        /\ clean.pc # "emptying" => clean.files = {}
    BY DEF CleanInv, CleanTyped, CleanFits, Emptied
  <1>1. ASSUME clean' = clean, named' = named, offered' \in SUBSET Categories,
               UNCHANGED <<there, unsafe, removed, lost, reported>>
        PROVE  CleanInv'
    BY <1>0, <1>1, CleaningGoesOn
  <1>2. ASSUME Cleaner!Scan PROVE CleanInv'
    BY <1>1, <1>2 DEF Cleaner!Scan
  <1>3. ASSUME NEW only \in SUBSET Categories, Cleaner!BeginClean(only) PROVE CleanInv'
    <2> DEFINE selected == IF only = {} THEN offered \intersect Default ELSE only
               r == [Cleaner!NoClean EXCEPT !.pc = "choosing", !.todo = selected]
    <2>1. selected \in SUBSET Categories /\ selected \subseteq (named \union only) \union Default
      BY <1>0
    <2>2. r \in Cleanings /\ r.todo = selected /\ r.pc = "choosing" /\ r.nodes = {} /\ r.files = {}
      BY <2>1 DEF Cleanings, Cleaner!NoClean
    <2>3. /\ clean' = r /\ clean.pc = "none" /\ named' = named \union only
          /\ UNCHANGED <<there, open, unsafe, live, offered, removed, lost, reported>>
      BY <1>3 DEF Cleaner!BeginClean
    <2> HIDE DEF r
    <2> QED BY <1>0, <2>1, <2>2, <2>3, CleaningGoesOn
  <1>4. ASSUME NEW c \in Categories, Cleaner!Refuse(c) PROVE CleanInv'
    <2> DEFINE r == [clean EXCEPT !.todo = @ \ {c}]
    <2>1. /\ r \in Cleanings /\ r.todo = clean.todo \ {c} /\ r.pc = clean.pc
          /\ r.nodes = clean.nodes /\ r.files = clean.files /\ r.dir = clean.dir
      BY <1>0 DEF Cleanings
    <2>2. /\ clean' = r
          /\ UNCHANGED <<there, open, unsafe, live, offered, named, removed, lost, reported>>
      BY <1>4 DEF Cleaner!Refuse
    <2> HIDE DEF r
    <2> QED BY <1>0, <2>1, <2>2, CleaningGoesOn
  <1>5. ASSUME NEW c \in Categories, Cleaner!Enter(c) PROVE CleanInv'
    <2> DEFINE r == [clean EXCEPT !.pc = "removing", !.todo = @ \ {c}, !.nodes = Cleaner!Targets(c)]
    <2>1. /\ clean.pc = "choosing" /\ c \in clean.todo \ ReportOnly /\ clean' = r
          /\ UNCHANGED <<there, open, unsafe, live, offered, named, removed, lost, reported>>
      BY <1>5 DEF Cleaner!Enter
    <2>2. Cleaner!Targets(c) \in SUBSET Nodes /\ \A n \in Cleaner!Targets(c) : Chosen(n)
      BY <1>0, <2>1 DEF Cleaner!Targets, Cleaner!TopOf, Chosen, Permitted, CleanInv, CleanTyped
    <2>3. /\ r \in Cleanings /\ r.todo = clean.todo \ {c} /\ r.pc = "removing"
          /\ r.nodes = Cleaner!Targets(c) /\ r.files = clean.files
      BY <1>0, <2>2 DEF Cleanings
    <2> HIDE DEF r
    <2> QED BY <1>0, <2>1, <2>2, <2>3, CleaningGoesOn
  <1>6. ASSUME NEW c \in LiveCaches, NEW answered \in BOOLEAN, NEW running \in BOOLEAN,
               Cleaner!AskWhetherLive(c, answered, running)
        PROVE  CleanInv'
    <2> DEFINE r == IF running THEN [clean EXCEPT !.todo = @ \ {c}]
                    ELSE [clean EXCEPT !.asked = IF answered THEN "answered" ELSE "failed"]
    <2>1. /\ r \in Cleanings /\ r.todo \subseteq clean.todo /\ r.pc = clean.pc
          /\ r.nodes = clean.nodes /\ r.files = clean.files /\ r.dir = clean.dir
      BY <1>0 DEF Cleanings
    <2>2. /\ clean' = r
          /\ UNCHANGED <<there, open, unsafe, live, offered, named, removed, lost, reported>>
      BY <1>6 DEF Cleaner!AskWhetherLive
    <2> HIDE DEF r
    <2> QED BY <1>0, <2>1, <2>2, CleaningGoesOn
  <1>7. ASSUME NEW n \in Nodes, Cleaner!Skip(n) PROVE CleanInv'
    <2> DEFINE r == [clean EXCEPT !.nodes = @ \ {n}]
    <2>1. /\ r \in Cleanings /\ r.todo = clean.todo /\ r.pc = clean.pc
          /\ r.nodes = clean.nodes \ {n} /\ r.files = clean.files /\ r.dir = clean.dir
      BY <1>0 DEF Cleanings
    <2>2. /\ clean' = r
          /\ UNCHANGED <<there, open, unsafe, live, offered, named, removed, lost, reported>>
      BY <1>7 DEF Cleaner!Skip
    <2> HIDE DEF r
    <2> QED BY <1>0, <2>1, <2>2, CleaningGoesOn
  <1>8. ASSUME Cleaner!EndCategory PROVE CleanInv'
    <2> DEFINE r == [clean EXCEPT !.pc = "choosing", !.asked = "no"]
    <2>1. /\ r \in Cleanings /\ r.todo = clean.todo /\ r.pc = "choosing"
          /\ r.nodes = clean.nodes /\ r.files = clean.files /\ r.dir = clean.dir
      BY <1>0 DEF Cleanings
    <2>2. /\ clean' = r /\ clean.pc = "removing" /\ clean.nodes = {}
          /\ UNCHANGED <<there, open, unsafe, live, offered, named, removed, lost, reported>>
      BY <1>8 DEF Cleaner!EndCategory
    <2> HIDE DEF r
    <2> QED BY <1>0, <2>1, <2>2, CleaningGoesOn
  <1>9. ASSUME Cleaner!EndClean PROVE CleanInv'
    <2> DEFINE r == Cleaner!NoClean
    <2>1. r \in Cleanings /\ r.todo = {} /\ r.pc = "none" /\ r.nodes = {} /\ r.files = {}
      BY DEF Cleanings, Cleaner!NoClean
    <2>2. /\ clean' = r /\ clean.pc = "choosing"
          /\ UNCHANGED <<there, open, unsafe, live, offered, named, removed, lost, reported>>
      BY <1>9 DEF Cleaner!EndClean
    <2> HIDE DEF r
    <2> QED BY <1>0, <2>1, <2>2, CleaningGoesOn
  <1>10. ASSUME NEW f, Cleaner!Hold(f) \/ Cleaner!Release(f) PROVE CleanInv'
    BY <1>0, <1>1, <1>10 DEF Cleaner!Hold, Cleaner!Release
  <1>11. ASSUME Cleaner!Live PROVE CleanInv'
    BY <1>0, <1>1, <1>11 DEF Cleaner!Live
  <1>12. ASSUME UNCHANGED cleaningVars PROVE CleanInv'
    BY <1>0, <1>1, <1>12 DEF cleaningVars
  <1> QED BY <1>2, <1>3, <1>4, <1>5, <1>6, <1>7, <1>8, <1>9, <1>10, <1>11, <1>12, RemovesAnEntry,
             MeasuresADirectory, RemovesBelow, RemovesTheDirectory, MeasuresAgain, OthersCreate,
             OthersDelete DEF Cleaner!CleaningNext

-----------------------------------------------------------------------------
(***************************************************************************)
(* The stores together: every step is one of one store, or of none, and    *)
(* leaves the variables of the others as they are.                         *)
(***************************************************************************)
LEMMA EachBegins ==
    Init => /\ Cache!CacheInit /\ Backup!BackupInit /\ Fixes!FixInit
            /\ StartPage!StartupInit /\ Sched!ScheduleInit /\ Cleaner!CleaningInit
  BY DEF Init

LEMMA EachGoesItsWay ==
    ASSUME [Next]_storesVars
    PROVE  /\ Cache!CacheNext \/ UNCHANGED cacheVars
           /\ Backup!BackupNext \/ UNCHANGED backupVars
           /\ Fixes!FixNext \/ UNCHANGED fixVars
           /\ StartPage!StartupNext \/ UNCHANGED startupVars
           /\ Sched!ScheduleNext \/ UNCHANGED scheduleVars
           /\ Cleaner!CleaningNext \/ UNCHANGED cleaningVars
  <1>1. CASE UNCHANGED storesVars
    BY <1>1 DEF storesVars
  <1>2. CASE Next
    BY <1>2 DEF Next, OthersStay
  <1> QED BY <1>1, <1>2

\* The offline cache (offline.rs): whatever any number of commands download, save or are stopped
\* at, two downloads of one installer among them, what lies in the cache was whole and has passed
\* the check of its signature, and the manifest speaks of such bytes only, except of the names
\* whose staging file two downloads have really had at once.
THEOREM NothingUncheckedHolds == Spec => []NothingUnchecked
  <1>1. Init => CacheInv
    BY EachBegins, CacheStarts
  <1>2. CacheInv /\ [Next]_storesVars => CacheInv'
    BY EachGoesItsWay, CacheKeeps
  <1>3. CacheInv => NothingUnchecked
    BY DEF CacheInv
  <1> QED BY <1>1, <1>2, <1>3, PTL DEF Spec

\* The driver backups (driver_backup.rs): when no two programs begin a backup in the same
\* second, and at least one is to be kept, every backup that is listed can be restored, and
\* no prune ever takes the last one, whichever programs export and prune at the same time.
THEOREM ListedCanBeRestoredHolds ==
    ASSUME OneASecond, Seconds \in Nat \ {0}, KeptBackups \in Nat \ {0}
    PROVE  Spec => []ListedCanBeRestored
  <1>1. Init => BackupInv
    <2>1. 1 \in Backup!Ids
      BY DEF Backup!Ids
    <2> QED BY <2>1, EachBegins, BackupStarts
  <1>2. BackupInv /\ [Next]_storesVars => BackupInv'
    BY EachGoesItsWay, BackupKeeps
  <1>3. BackupInv => ListedCanBeRestored
    BY OneIsLeft
  <1> QED BY <1>1, <1>2, <1>3, PTL DEF Spec

\* The fixes (security/remediate.rs): when no two fixes begin in the same second, a file that
\* was quarantined lies whole in the quarantine, and a text of hosts that a reset found and
\* replaced lies whole in a copy, through failures and kills at any call.  A path or a text is
\* none of the model's words for nothing.
THEOREM NothingIsDeletedHolds ==
    ASSUME OneFixASecond, MaxSecond \in Nat \ {0},
           {Fixes!Absent, Fixes!Piece} \intersect (Paths \union HostsTexts) = {}
    PROVE  Spec => []NothingIsDeleted
  <1>1. Init => FixInv
    BY EachBegins, FixStarts
  <1>2. FixInv /\ [Next]_storesVars => FixInv'
    BY EachGoesItsWay, FixKeeps
  <1>3. FixInv => NothingIsDeleted
    BY DEF FixInv
  <1> QED BY <1>1, <1>2, <1>3, PTL DEF Spec

\* The startup page (startup_items.rs, autostart.rs): whatever other programs, cut-off writes and
\* Odysync's own setting do in between, what the page has turned off is on its list and, but for
\* a shortcut or a file that a write has emptied, can be turned on there; what starts is listed
\* and what is listed as on starts, with the disabled key of a launch agent and launchd's own list
\* of disabled labels both counted.  Odysync's own entry is not a shortcut.
THEOREM ComesBackHolds ==
    ASSUME OneKindEach, Own \subseteq StartPage!Entries \ Shortcuts
    PROVE  Spec => []ComesBack
  <1>1. Init => StartupInv
    BY EachBegins, StartupStarts
  <1>2. StartupInv /\ [Next]_storesVars => StartupInv'
    BY EachGoesItsWay, StartupKeeps
  <1>3. StartupInv => ComesBack
    BY OffComesBack
  <1> QED BY <1>1, <1>2, <1>3, PTL DEF Spec

\* The schedule (scheduler.rs): on every scheduler, with every call of it failing, being cut off
\* or answering falsely that there is no schedule, a schedule reported as created runs as it was
\* asked for after every sign-in, and one reported as removed runs no more after the next, unless
\* none of the calls that take it from there has worked.
THEOREM AnswersHoldHolds ==
    ASSUME PlainWords, Managers \subseteq {"schtasks", "launchd", "systemd"}
    PROVE  Spec => []AnswersHold
  <1>1. Init => ScheduleInv
    BY EachBegins, ScheduleStarts
  <1>2. ScheduleInv /\ [Next]_storesVars => ScheduleInv'
    BY EachGoesItsWay, ScheduleKeeps
  <1>3. ScheduleInv => AnswersHold
    BY WhatWasAnswered
  <1> QED BY <1>1, <1>2, <1>3, PTL DEF Spec

\* The disk cleaner (cleanup.rs): whatever tree lies below the roots, whichever categories are
\* unsafe, reported only or selected, and whatever other programs open, create and delete between
\* two of its calls, a cleaning removes only what matches below a root that was chosen, goes
\* through no link below it, and reports no more bytes than have gone; of its own removals, those
\* that failed half-way among them, exactly theirs when no other program has changed a file.
THEOREM OnlyTheChosenHolds == Spec => []OnlyTheChosen
  <1>1. Init => CleanInv
    BY EachBegins, CleaningStarts
  <1>2. CleanInv /\ [Next]_storesVars => CleanInv'
    BY EachGoesItsWay, CleaningKeeps
  <1>3. CleanInv => OnlyTheChosen
    BY OnlyTheChosenFollows DEF OnlyTheChosen
  <1> QED BY <1>1, <1>2, <1>3, PTL DEF Spec
=============================================================================
