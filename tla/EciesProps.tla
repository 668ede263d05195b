----------------------------- MODULE EciesProps -----------------------------
(***************************************************************************)
(* What the error paths of keys.cpp and ecies.cpp leave behind.            *)
(***************************************************************************)
EXTENDS Ecies

\* Something is encrypted, and its length fits an int.
ASSUME LengthsAssumption ==
  Lengths \subseteq Nat \ {0} /\ \A length \in Lengths : length <= 2147483647

-----------------------------------------------------------------------------
Locals ==
  {"key", "user", "ephemeral", "group", "original", "point", "bn", "hex",
   "cryptex", "cipher", "hmac", "output"}
Objects == Locals \cup Pointers

\* The type invariant.
TypeOK ==
  /\ doing \in {Idle, Crashed} \cup {Startup[i] : i \in 1..Len(Startup)} \cup PerFrame
  /\ doing = Idle => rest = <<>> /\ live \subseteq Pointers
  /\ live \subseteq Objects
  /\ \A l \in lost \cup misused : l[2] \in Objects
  /\ eliptic \in BOOLEAN
  /\ "eliptic" \in live => eliptic
  /\ envelope \in [orig : Nat, body : Nat, written : Nat]

-----------------------------------------------------------------------------
\* Whichever call fails, no function uses or frees an object that is not
\* there (or no longer): with one exception, the group that ecies_group_init
\* frees when its tables cannot be computed, goes on to use, and stores.
NothingDangling ==
  misused \subseteq {<<"EC_GROUP_set_point_conversion_form", "group">>,
                     <<"EC_GROUP_dup", "eliptic">>}

\* Whichever call fails, a function that is over has freed every object of its
\* own that it does not return, with three exceptions: the group that
\* ecies_group duplicates when there is no global one, the point that
\* EC_POINT_oct2point does not accept the octets for, and the group of a string
\* that EC_POINT_hex2point does not accept.
LocalsFreed ==
  {l \in lost : l[2] \in Locals} \subseteq
    {<<"EC_GROUP_dup", "original">>, <<"EC_KEY_set_group", "original">>,
     <<"EC_KEY_generate_key", "original">>, <<"ecies_key_create", "original">>,
     <<"EC_POINT_oct2point", "point">>, <<"EC_POINT_hex2point", "group">>}

\* The body of an envelope is written exactly: what the cipher puts out fits
\* into what was allocated, whatever the length, and all of it is covered by
\* the authentication code; the data that went in is a part of what comes out.
EnvelopeFilled ==
  /\ BodyData + envelope.written <= TotalLength(envelope.body)
  /\ "cryptex" \in live /\ "hmac" \in live => envelope.written = envelope.body
  /\ envelope.orig <= envelope.body

=============================================================================
