------------------------------- MODULE Ecies -------------------------------
(***************************************************************************)
(* keys.cpp, ecies.cpp and secure.cpp: what their functions acquire from   *)
(* OpenSSL and from malloc, use and give back, any call failing at any     *)
(* time, for the calls that the constructors of crypto and top make first  *)
(* and those that the two programs with ECIES (the ECC threads of          *)
(* crypto.cpp, and cpu.cpp) then make for each frame.                      *)
(*                                                                         *)
(* A function is the sequence of its calls that can fail or that free      *)
(* something; one step of the model is one of these calls, with the        *)
(* reaction to its result.  An object is the name of the local variable    *)
(* or of the caller's variable that points to it.  No function waits, so   *)
(* they are never interleaved.                                             *)
(***************************************************************************)
EXTENDS Naturals, Sequences

CONSTANT Lengths   \* the lengths, in bytes, of the data to be encrypted

VARIABLES
  todo,      \* the calls that top and the constructors have yet to make
  doing,     \* the call in progress, a record [fn, to], Idle or Crashed
  rest,      \* the steps of the function called that are still to come
  live,      \* the objects that exist and are pointed to
  lost,      \* objects to which this call left no pointer: <<step, name>>
  misused,   \* objects that this call used after their end: <<step, name>>
  eliptic,   \* whether the global eliptic is not NULL
  envelope   \* the lengths in the last envelope's head; its bytes written

vars == <<todo, doing, rest, live, lost, misused, eliptic, envelope>>

-----------------------------------------------------------------------------
(* Steps. *)

\* The call uses some objects and gives others.  If it fails, those in undo
\* are freed and the function returns NULL; if not, those in frees are freed.
\* A context is initialised, and has to be cleaned up, even if the call that
\* first uses it fails: that call gives it.
Step(call, uses, gives, undo, frees) ==
  [call |-> call, uses |-> uses, gives |-> gives, undo |-> undo, frees |-> frees,
   otherwise |-> "return", writes |-> 0]

\* The result is not looked at: a null pointer is used.
Unchecked(step) == [step EXCEPT !.otherwise = "crash"]

-----------------------------------------------------------------------------
(* keys.cpp.  held is what the calling function frees if this one fails. *)

\* ecies_group_init goes on with the group that it has just freed.
EciesGroupInit ==
  <<Unchecked(Step("EC_GROUP_new_by_curve_name", {}, {"group"}, {}, {})),
    [Step("EC_GROUP_precompute_mult", {"group"}, {}, {"group"}, {})
       EXCEPT !.otherwise = "continue"],
    [Step("EC_GROUP_set_point_conversion_form", {"group"}, {}, {}, {})
       EXCEPT !.otherwise = "succeed"]>>

EciesGroup(held) ==
  IF eliptic
  THEN <<Step("EC_GROUP_dup", {"eliptic"}, {"group"}, held, {})>>
  ELSE <<Step("EC_GROUP_new_by_curve_name", {}, {"original"}, held, {}),
         Step("EC_GROUP_precompute_mult", {"original"}, {}, held \cup {"original"}, {}),
         Step("EC_GROUP_dup", {"original"}, {"group"}, held, {})>>

EciesKeyCreate(key, held) ==
  <<Step("EC_KEY_new", {}, {key}, held, {})>>
  \o EciesGroup(held \cup {key})
  \o <<Step("EC_KEY_set_group", {key, "group"}, {}, held \cup {key, "group"}, {"group"}),
       Step("EC_KEY_generate_key", {key}, {}, held \cup {key}, {})>>

EciesKeyCreatePublicOctets(key, held) ==
  <<Step("EC_KEY_new", {}, {key}, held, {})>>
  \o EciesGroup(held \cup {key})
  \o <<Step("EC_KEY_set_group", {key, "group"}, {}, held \cup {key, "group"}, {}),
       Step("EC_POINT_new", {"group"}, {"point"}, held \cup {key, "group"}, {}),
       Step("EC_POINT_oct2point", {"group", "point"}, {}, held \cup {key, "group"}, {}),
       Step("EC_KEY_set_public_key", {key, "point"}, {},
            held \cup {key, "group", "point"}, {"group", "point"}),
       Step("EC_KEY_check_key", {key}, {}, held \cup {key}, {})>>

\* Mutant: the last error path frees what has been freed before it.
EciesKeyCreatePublicHexTwice(key, held) ==
  <<Step("EC_KEY_new", {}, {key}, held, {}),
    Step("EC_GROUP_new_by_curve_name", {}, {"group"}, held \cup {key}, {}),
    Step("EC_KEY_set_group", {key, "group"}, {}, held \cup {key, "group"}, {}),
    Step("EC_POINT_hex2point", {"group"}, {"point"}, held \cup {key}, {}),
    Step("EC_KEY_set_public_key", {key, "point"}, {},
         held \cup {key, "group", "point"}, {"group", "point"}),
    Step("EC_KEY_check_key", {key}, {}, held \cup {key, "group", "point"}, {})>>

EciesKeyCreatePublicHex(key, held) ==
  <<Step("EC_KEY_new", {}, {key}, held, {}),
    Step("EC_GROUP_new_by_curve_name", {}, {"group"}, held \cup {key}, {}),
    Step("EC_KEY_set_group", {key, "group"}, {}, held \cup {key, "group"}, {}),
    Step("EC_POINT_hex2point", {"group"}, {"point"}, held \cup {key}, {}),
    Step("EC_KEY_set_public_key", {key, "point"}, {},
         held \cup {key, "group", "point"}, {"group", "point"}),
    Step("EC_KEY_check_key", {key}, {}, held \cup {key}, {})>>

\* Mutant: the number is freed only if the key takes it.
EciesKeyCreatePrivateHexKept(key, held) ==
  <<Step("EC_KEY_new", {}, {key}, held, {}),
    Step("EC_GROUP_new_by_curve_name", {}, {"group"}, held \cup {key}, {}),
    Step("EC_KEY_set_group", {key, "group"}, {}, held \cup {key, "group"}, {"group"}),
    Step("BN_hex2bn", {}, {"bn"}, held \cup {key}, {}),
    Step("EC_KEY_set_private_key", {key, "bn"}, {}, held \cup {key}, {"bn"})>>

EciesKeyCreatePrivateHex(key, held) ==
  <<Step("EC_KEY_new", {}, {key}, held, {}),
    Step("EC_GROUP_new_by_curve_name", {}, {"group"}, held \cup {key}, {}),
    Step("EC_KEY_set_group", {key, "group"}, {}, held \cup {key, "group"}, {"group"}),
    Step("BN_hex2bn", {}, {"bn"}, held \cup {key}, {}),
    Step("EC_KEY_set_private_key", {key, "bn"}, {}, held \cup {key, "bn"}, {"bn"})>>

\* Both getters: EC_KEY_get0_... points into the key, the string is new.
GetHex(call) == <<Step(call, {"ecKey"}, {"hex"}, {}, {})>>

-----------------------------------------------------------------------------
(* secure.cpp.  The head is four uint64_t; key and mac are the lengths of   *)
(* a compressed point of secp521r1 and of a SHA-512.                        *)

HeadLength == 32
KeyLength == 67
MacLength == 64

BodyData == HeadLength + KeyLength + MacLength
TotalLength(body) == HeadLength + (KeyLength + MacLength + body)

-----------------------------------------------------------------------------
(* ecies.cpp.  A cipher or digest context is an object until its cleanup.  *)

Block == 16

\* Mutant: padded as cpu.cpp does it, to a further block if none is needed.
PaddedAlways(length) == length + (Block - (length % Block))

Padded(length) == IF (length % Block) = 0 THEN length ELSE length + (Block - (length % Block))

\* With padding off the cipher puts out what it is given, if that is whole
\* blocks; the bytes left over are put in a block of their own.  The returns for
\* an output of another length (ecies.cpp:125, 138, 157 and 287) are therefore
\* left out; they release what those of the calls in front of them do.
EncryptBody(length) ==
  <<[Step("EVP_EncryptUpdate", {"cipher", "cryptex"}, {}, {"cipher", "cryptex"}, {})
       EXCEPT !.writes = length - (length % Block)]>>
  \o IF (length % Block) = 0 THEN <<>>
     ELSE <<[Step("EVP_EncryptUpdate", {"cipher", "cryptex"}, {}, {"cipher", "cryptex"}, {})
               EXCEPT !.writes = Block]>>

EciesEncrypt(length) ==
  EciesKeyCreatePublicHex("user", {})
  \o EciesKeyCreate("ephemeral", {"user"})
  \o LET keys == {"user", "ephemeral"}
     IN  <<Step("ECDH_compute_key", keys, {}, keys, {}),
           Step("EC_POINT_point2oct", {"ephemeral"}, {}, keys, {}),
           Unchecked(Step("secure_alloc", {}, {"cryptex"}, {}, {})),
           Step("EC_POINT_point2oct", {"ephemeral", "cryptex"}, {}, keys \cup {"cryptex"}, keys),
           Step("EVP_EncryptInit_ex", {}, {"cipher"}, {"cipher", "cryptex"}, {})>>
  \o EncryptBody(length)
  \o <<Step("EVP_EncryptFinal_ex", {"cipher", "cryptex"}, {}, {"cipher", "cryptex"}, {"cipher"}),
       Step("HMAC_Init_ex", {}, {"hmac"}, {"hmac", "cryptex"}, {}),
       Step("HMAC_Update", {"hmac", "cryptex"}, {}, {"hmac", "cryptex"}, {}),
       Step("HMAC_Final", {"hmac", "cryptex"}, {}, {"hmac", "cryptex"}, {"hmac"})>>

EciesDecrypt ==
  EciesKeyCreatePrivateHex("user", {})
  \o EciesKeyCreatePublicOctets("ephemeral", {"user"})
  \o LET keys == {"user", "ephemeral"}
     IN  <<Step("ECDH_compute_key", keys, {}, keys, keys),
           Step("HMAC_Init_ex", {}, {"hmac"}, {"hmac"}, {}),
           Step("HMAC_Update", {"hmac", "cipherText"}, {}, {"hmac"}, {}),
           Step("HMAC_Final", {"hmac"}, {}, {"hmac"}, {"hmac"}),
           Step("memcmp", {"cipherText"}, {}, {}, {}),
           Step("malloc", {}, {"output"}, {}, {}),
           Step("EVP_DecryptInit_ex", {}, {"cipher"}, {"cipher", "output"}, {}),
           Step("EVP_DecryptUpdate", {"cipher", "output", "cipherText"}, {}, {"cipher", "output"}, {}),
           Step("EVP_DecryptFinal_ex", {"cipher", "output"}, {}, {"cipher", "output"}, {"cipher"})>>

-----------------------------------------------------------------------------
(* The callers. *)

Idle == [fn |-> "none", to |-> "none"]
Crashed == [fn |-> "crashed", to |-> "none"]

\* What each function returns, by the name it has there.
Result ==
  [ecies_key_create |-> "key", ecies_group_init |-> "group",
   ecies_key_public_get_hex |-> "hex", ecies_key_private_get_hex |-> "hex",
   ecies_encrypt |-> "cryptex", ecies_decrypt |-> "output"]

\* top makes the key; each of the two units initialises the group and keeps
\* the key's two strings.
Unit(public, private) ==
  <<[fn |-> "ecies_group_init", to |-> "eliptic"],
    [fn |-> "ecies_key_public_get_hex", to |-> public],
    [fn |-> "ecies_key_private_get_hex", to |-> private]>>
Startup ==
  <<[fn |-> "ecies_key_create", to |-> "ecKey"]>>
  \o Unit("publicKey1", "privateKey1") \o Unit("publicKey2", "privateKey2")

\* The processors of cpu.cpp make the strings again for every frame.
PerFrame ==
  {[fn |-> "ecies_key_public_get_hex", to |-> "publicKey"],
   [fn |-> "ecies_key_private_get_hex", to |-> "privateKey"],
   [fn |-> "ecies_encrypt", to |-> "cipherText"],
   [fn |-> "ecies_decrypt", to |-> "data"]}

\* The pointers of the callers.  One that is not live is NULL or dangling.
Pointers ==
  {Startup[i].to : i \in 1..Len(Startup)} \cup {c.to : c \in PerFrame}

\* A null pointer passed as key or envelope is refused.
Refused(c) ==
  \/ /\ c.fn = "ecies_encrypt"
     /\ {"publicKey1", "publicKey"} \cap live = {}
  \/ /\ c.fn = "ecies_decrypt"
     /\ "cipherText" \notin live \/ {"privateKey2", "privateKey"} \cap live = {}

Body(c, length) ==
  CASE c.fn = "ecies_key_create" -> EciesKeyCreate("key", {})
    [] c.fn = "ecies_group_init" -> EciesGroupInit
    [] c.fn = "ecies_key_public_get_hex" -> GetHex("EC_POINT_point2hex")
    [] c.fn = "ecies_key_private_get_hex" -> GetHex("BN_bn2hex")
    [] c.fn = "ecies_encrypt" -> EciesEncrypt(length)
    [] c.fn = "ecies_decrypt" -> EciesDecrypt

\* The caller stores what was returned, an object or (ok = FALSE) NULL, over
\* what it had; the locals of the function are gone.
StoreResult(c, ok, existing, by, kept) ==
  LET result == IF ok THEN {Result[c.fn]} ELSE {}
      left == existing \ (Pointers \cup result)
  IN  /\ lost' = kept \cup {<<by, o>> : o \in left}
                      \cup {<<c.fn, o>> : o \in {c.to} \cap existing}
      /\ live' = ((existing \cap Pointers) \ {c.to})
                 \cup {c.to : o \in result \cap existing}
      /\ doing' = Idle
      /\ rest' = <<>>

-----------------------------------------------------------------------------
Call(c, length) ==
  /\ doing = Idle
  /\ \/ todo # <<>> /\ c = Head(todo) /\ todo' = Tail(todo)
     \/ todo = <<>> /\ c \in PerFrame /\ UNCHANGED todo
  /\ misused' = {}
  /\ UNCHANGED eliptic
  /\ \/ /\ ~Refused(c)
        /\ lost' = {}
        /\ doing' = c
        /\ rest' = Body(c, length)
        /\ envelope' = IF c.fn = "ecies_encrypt"
                       THEN [orig |-> length, body |-> Padded(length), written |-> 0]
                       ELSE envelope
        /\ UNCHANGED live
     \/ /\ Refused(c)
        /\ StoreResult(c, FALSE, live, c.fn, {})
        /\ UNCHANGED envelope

\* What a step does to objects that do not exist.
Misuse(step, freed) ==
  misused' = misused \cup
    {<<step.call, o>> : o \in (step.uses \cup freed) \ (live \cup step.gives)}

\* The key is NULL, which the getters do not expect.
NullKey == "ecKey" \in Head(rest).uses \ live

Succeed ==
  /\ rest # <<>>
  /\ ~NullKey
  /\ LET step == Head(rest)
     IN  /\ live' = (live \cup step.gives) \ step.frees
         /\ lost' = lost \cup {<<step.call, o>> : o \in step.gives \cap live}
         /\ Misuse(step, step.frees)
         /\ envelope' = [envelope EXCEPT !.written = @ + step.writes]
  /\ rest' = Tail(rest)
  /\ UNCHANGED <<todo, doing, eliptic>>

Fail ==
  /\ rest # <<>>
  /\ ~NullKey
  /\ Head(rest).otherwise = "return"
  /\ LET step == Head(rest)
     IN  /\ Misuse(step, step.undo)
         /\ StoreResult(doing, FALSE, live \ step.undo, step.call, lost)
  /\ UNCHANGED <<todo, eliptic, envelope>>

FailAndGoOn ==
  /\ rest # <<>>
  /\ Head(rest).otherwise = "continue"
  /\ Misuse(Head(rest), Head(rest).undo)
  /\ live' = live \ Head(rest).undo
  /\ rest' = Tail(rest)
  /\ UNCHANGED <<todo, doing, lost, eliptic, envelope>>

\* The null pointer is used: the program ends.
Crash ==
  /\ rest # <<>>
  /\ Head(rest).otherwise = "crash" \/ NullKey
  /\ doing' = Crashed
  /\ rest' = <<>>
  /\ UNCHANGED <<todo, live, lost, misused, eliptic, envelope>>

\* Mutant: ecies_group_init does not store the group.
ReturnUnstored ==
  /\ rest = <<>>
  /\ doing \notin {Idle, Crashed}
  /\ StoreResult(doing, TRUE, live, doing.fn, lost)
  /\ UNCHANGED <<todo, misused, eliptic, envelope>>

Return ==
  /\ rest = <<>>
  /\ doing \notin {Idle, Crashed}
  /\ StoreResult(doing, TRUE, live, doing.fn, lost)
  /\ eliptic' = (eliptic \/ doing.fn = "ecies_group_init")
  /\ UNCHANGED <<todo, misused, envelope>>

Init ==
  /\ todo = Startup
  /\ doing = Idle
  /\ rest = <<>>
  /\ live = {}
  /\ lost = {}
  /\ misused = {}
  /\ eliptic = FALSE
  /\ envelope = [orig |-> 0, body |-> 0, written |-> 0]

Next ==
  \/ \E c \in {Startup[i] : i \in 1..Len(Startup)} \cup PerFrame, length \in Lengths :
       Call(c, length)
  \/ Succeed \/ Fail \/ FailAndGoOn \/ Crash \/ Return

Spec == Init /\ [][Next]_vars

=============================================================================
