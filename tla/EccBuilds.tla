----------------------------- MODULE EccBuilds -----------------------------
(***************************************************************************)
(* The two programs that encrypt with ECIES, the crypto units' ECC threads *)
(* and the software of cpu.cpp, and what they have in common: an envelope  *)
(* in a global variable, which the next frame's replaces.                  *)
(***************************************************************************)
EXTENDS Software

CONSTANT MaxLen   \* MaxLen[p]: the longest frame considered for program p

VARIABLE build    \* the program

Builds == {"hardware", "software"}
ASSUME MaxLenAssumption == MaxLen \in [Builds -> Nat]

eccVars == <<vars, cipherText, cipher, bufferInt, build>>

EccInit ==
  /\ Init
  /\ cipherText = NULL
  /\ cipher = NULL
  /\ bufferInt = Blank
  /\ build \in Builds

EccNext ==
  /\ \/ build = "hardware" /\ EccPipeline /\ UNCHANGED <<cipher, bufferInt>>
     \/ build = "software" /\ SoftwarePipeline /\ UNCHANGED cipherText
  /\ enc'.buffer_ptr <= MaxLen[build]
  /\ UNCHANGED build

EccSpec == EccInit /\ [][EccNext]_eccVars

-----------------------------------------------------------------------------
Envelope == [plain : Content, no : 0..Frames]

\* The type invariant.
EccTypeOK ==
  /\ TypeOK
  /\ {cipherText, cipher} \subseteq Envelope
  /\ bufferInt \in Content

\* The receiver decrypts the envelope of the frame that it was told about: it
\* comes to it before the sender has replaced the envelope in the global
\* variable by the next one, so that it is of the same number and as long.
OwnEnvelope ==
  [][/\ EccDecrypt =>
          /\ cipherText.no % 2 = 1 - mem_num["decrypt_packet"]
          /\ cipherText.plain.len = crypto["bus2"].length
     /\ DecryptEnvelope =>
          /\ cipher.no % 2 = 1 - mem_num["decrypt_packet"]
          /\ cipher.plain.len = result["decrypt_packet"].len]_eccVars

=============================================================================
