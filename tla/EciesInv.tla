------------------------------ MODULE EciesInv ------------------------------
(***************************************************************************)
(* An inductive invariant of the calls to keys.cpp and ecies.cpp: which    *)
(* objects the function in progress holds in front of each of the steps    *)
(* that it still has to make, and what it may do there with them.          *)
(***************************************************************************)
EXTENDS EciesProps

Calls == {Startup[i] : i \in 1..Len(Startup)} \cup PerFrame

Names ==
  {"BN_bn2hex", "BN_hex2bn", "ECDH_compute_key", "EC_GROUP_dup",
   "EC_GROUP_new_by_curve_name", "EC_GROUP_precompute_mult",
   "EC_GROUP_set_point_conversion_form", "EC_KEY_check_key", "EC_KEY_generate_key",
   "EC_KEY_new", "EC_KEY_set_group", "EC_KEY_set_private_key",
   "EC_KEY_set_public_key", "EC_POINT_hex2point", "EC_POINT_new",
   "EC_POINT_oct2point", "EC_POINT_point2hex", "EC_POINT_point2oct",
   "EVP_DecryptFinal_ex", "EVP_DecryptInit_ex", "EVP_DecryptUpdate",
   "EVP_EncryptFinal_ex", "EVP_EncryptInit_ex", "EVP_EncryptUpdate", "HMAC_Final",
   "HMAC_Init_ex", "HMAC_Update", "malloc", "memcmp", "secure_alloc"}
Steps ==
  [call : Names, uses : SUBSET Objects, gives : SUBSET Objects, undo : SUBSET Objects,
   frees : SUBSET Objects, otherwise : {"return", "crash", "continue", "succeed"}, writes : Nat]

\* The exceptions of NothingDangling and LocalsFreed.
Dangling ==
  {<<"EC_GROUP_set_point_conversion_form", "group">>, <<"EC_GROUP_dup", "eliptic">>}
Forgotten ==
  {<<"EC_GROUP_dup", "original">>, <<"EC_KEY_set_group", "original">>,
   <<"EC_KEY_generate_key", "original">>, <<"ecies_key_create", "original">>,
   <<"EC_POINT_oct2point", "point">>, <<"EC_POINT_hex2point", "group">>}

-----------------------------------------------------------------------------
(* Functions as lists of steps. *)

\* What a function that holds the objects of before holds in front of its i-th
\* step, if the steps up to there succeed.
Held(steps, before, i) ==
  {o \in Locals :
     \/ o \in before /\ \A k \in 1..i - 1 : o \notin steps[k].frees
     \/ \E j \in 1..i - 1 :
          o \in steps[j].gives /\ \A k \in j..i - 1 : o \notin steps[k].frees}

\* What a function uses of its caller's.
OfCaller(fn) ==
  CASE fn \in {"ecies_key_public_get_hex", "ecies_key_private_get_hex"} -> {"ecKey"}
    [] fn = "ecies_decrypt" -> {"cipherText"}
    [] OTHER -> {}

\* A step of function fn is right where held is what the function holds: it
\* gives what is new, it uses and frees what is there, and when it fails
\* nothing is left behind but what LocalsFreed allows.
StepOK(fn, step, held) ==
  /\ step.gives \subseteq Locals \ held
  /\ step.frees \subseteq held \cup step.gives
  /\ step.undo \subseteq held \cup step.gives
  /\ step.uses \subseteq held \cup step.gives \cup OfCaller(fn)
                      \cup (IF step.call = "EC_GROUP_dup" THEN {"eliptic"} ELSE {})
  /\ step.otherwise \in {"return", "crash"}
  /\ step.otherwise = "return" => \A o \in held \ step.undo : <<step.call, o>> \in Forgotten

\* Steps that are right from before on, and leave after.
Sound(fn, steps, before, after) ==
  /\ \A i \in 1..Len(steps) : StepOK(fn, steps[i], Held(steps, before, i))
  /\ after = Held(steps, before, Len(steps) + 1)

\* What function fn may still hold when it returns.
Left(fn) == {Result[fn]} \cup {o \in Locals : <<fn, o>> \in Forgotten}

-----------------------------------------------------------------------------
TypesOK ==
  /\ doing \in {Idle, Crashed} \cup Calls
  /\ doing \in {Idle, Crashed} => rest = <<>>
  /\ doing = Idle => live \subseteq Pointers
  /\ rest \in Seq(Steps)
  /\ live \subseteq Objects
  /\ \A l \in lost \cup misused : l[2] \in Objects
  /\ eliptic \in BOOLEAN
  /\ "eliptic" \in live => eliptic
  /\ envelope \in [orig : Nat, body : Nat, written : Nat]

\* The global group is there when the first ecies_group_init is over.
TodoOK ==
  /\ \E k \in 1..Len(Startup) + 1 : todo = SubSeq(Startup, k, Len(Startup))
  /\ doing # Crashed /\ Len(todo) <= 5 /\ ~(Len(todo) = 5 /\ doing.fn = "ecies_group_init")
       => eliptic
  /\ doing \in PerFrame => todo = <<>>

\* ecies_group_init may go on with a group that it has freed.
GroupInitOK ==
  doing.fn = "ecies_group_init" =>
    /\ \E k \in 1..4 : rest = SubSeq(EciesGroupInit, k, 3)
    /\ live \cap Locals \subseteq {"group"}
    /\ Len(rest) = 3 => live \cap Locals = {}
    /\ Len(rest) = 2 => "group" \in live

\* Every other function is right from where it is.
FunctionOK ==
  doing \in Calls /\ doing.fn # "ecies_group_init" =>
    \E after \in SUBSET Left(doing.fn) : Sound(doing.fn, rest, live \cap Locals, after)

\* The envelope is there while it is decrypted.
DecryptOK == doing.fn = "ecies_decrypt" => "cipherText" \in live

\* What ecies_encrypt has written when n of its steps are left.
WrittenBefore(n, length) ==
  IF length % Block = 0 THEN (IF n <= 4 THEN length ELSE 0)
  ELSE CASE n <= 4 -> Padded(length) [] n = 5 -> length - (length % Block) [] OTHER -> 0

\* Each step, with n more to come after the list, writes what is then to be
\* written; no null pointer is used once the code is begun.
Writing(steps, n, length) ==
  \A i \in 1..Len(steps) :
    LET after == Len(steps) - i + n
    IN  /\ WrittenBefore(after, length) = WrittenBefore(after + 1, length) + steps[i].writes
        /\ steps[i].otherwise = "crash" => after > 2
        /\ "hmac" \in steps[i].gives => after <= 2

\* Steps of a function that writes no envelope.
Reading(steps) ==
  \A i \in 1..Len(steps) : steps[i].writes = 0 /\ "cryptex" \notin steps[i].gives

\* The code is computed over a whole envelope, and only ecies_encrypt has one.
EnvelopeOK ==
  /\ envelope.body = Padded(envelope.orig)
  /\ envelope.written <= envelope.body
  /\ doing.fn = "ecies_encrypt" =>
       /\ envelope.written = WrittenBefore(Len(rest), envelope.orig)
       /\ Writing(rest, 0, envelope.orig)
       /\ "hmac" \in live => Len(rest) <= 2
  /\ doing \in Calls /\ doing.fn # "ecies_encrypt" =>
       /\ "cryptex" \notin live
       /\ Reading(rest)
  /\ doing = Crashed => ~({"cryptex", "hmac"} \subseteq live)

\* The inductive invariant.
EciesInvariant ==
  /\ TypesOK /\ NothingDangling /\ LocalsFreed
  /\ TodoOK /\ GroupInitOK /\ FunctionOK /\ DecryptOK /\ EnvelopeOK

=============================================================================
