---------------------------- MODULE UserInputThread ----------------------------
(***************************************************************************)
(* One key handed from the thread that reads the terminal to the program   *)
(* (externals/vikit/src/user_input_thread.cpp).  There is no lock: every   *)
(* access to input_ and stop_ is a step of its own.                        *)
(*                                                                         *)
(* Keys are numbered in the order they are typed, so that 0 is no key.     *)
(***************************************************************************)
EXTENDS Naturals

CONSTANT MaxKeys   \* bound on the keys the user types

ASSUME KeysAssumption == MaxKeys \in Nat

VARIABLES
  typed,     \* keys typed so far
  consumed,  \* keys getchar has taken
  input_,
  stop_,
  reader,    \* where acquireUserInput is
  client,    \* where the thread is that owns the object
  tmp,       \* of getInput
  returned   \* history: the last key getInput returned

keyVars == <<typed, consumed, input_, stop_, reader, client, tmp, returned>>

KeyInit ==
  /\ typed = 0 /\ consumed = 0
  /\ input_ = 0 /\ stop_ = FALSE
  /\ reader = "test" /\ client = "idle" /\ tmp = 0 /\ returned = 0

(* The user types a key.                                                    *)
TypeKey ==
  /\ typed < MaxKeys /\ typed' = typed + 1
  /\ UNCHANGED <<consumed, input_, stop_, reader, client, tmp, returned>>

-----------------------------------------------------------------------------
(* acquireUserInput                                                         *)

(* Mutant: the loop has no end.                                             *)
KeepReadingForever == TRUE

KeepReading == ~stop_

ReaderTest ==
  /\ reader = "test"
  /\ reader' = IF KeepReading THEN "getchar" ELSE "ended"
  /\ UNCHANGED <<typed, consumed, input_, stop_, client, tmp, returned>>

(* Blocks while there is no key.                                            *)
ReaderGetchar ==
  /\ reader = "getchar" /\ consumed < typed
  /\ consumed' = consumed + 1
  /\ reader' = "store"
  /\ UNCHANGED <<typed, input_, stop_, client, tmp, returned>>

ReaderStore ==
  /\ reader = "store" /\ reader' = "test"
  /\ input_' = consumed
  /\ UNCHANGED <<typed, consumed, stop_, client, tmp, returned>>

ReaderStep == ReaderTest \/ ReaderGetchar \/ ReaderStore

-----------------------------------------------------------------------------
(* getInput, stop and the destructor                                        *)

GetInputRead ==
  /\ client = "idle" /\ client' = "clear"
  /\ tmp' = input_
  /\ UNCHANGED <<typed, consumed, input_, stop_, reader, returned>>

(* Mutant: the key is not taken back.                                       *)
ClearedKept == input_

Cleared == 0

GetInputClear ==
  /\ client = "clear" /\ client' = "idle"
  /\ input_' = Cleared
  /\ returned' = IF tmp # 0 THEN tmp ELSE returned
  /\ tmp' = 0
  /\ UNCHANGED <<typed, consumed, stop_, reader>>

Stop ==
  /\ client = "idle"
  /\ stop_' = TRUE
  /\ UNCHANGED <<typed, consumed, input_, reader, client, tmp, returned>>

(* The destructor joins the thread; it does not stop it.                    *)
Destroy ==
  /\ client = "idle" /\ client' = "join"
  /\ UNCHANGED <<typed, consumed, input_, stop_, reader, tmp, returned>>

Joined ==
  /\ client = "join" /\ reader = "ended" /\ client' = "destroyed"
  /\ UNCHANGED <<typed, consumed, input_, stop_, reader, tmp, returned>>

KeyNext ==
  \/ TypeKey \/ ReaderStep
  \/ GetInputRead \/ GetInputClear \/ Stop \/ Destroy \/ Joined

KeySpec == KeyInit /\ [][KeyNext]_keyVars

(* Both threads run; the user and the calls of the client are free.         *)
FairKeySpec == KeySpec /\ WF_keyVars(ReaderStep) /\ WF_keyVars(GetInputClear \/ Joined)

-----------------------------------------------------------------------------
(* Properties                                                               *)

(* "Once this function is called, the input state is reset to the default": *)
(* getInput returns no key twice and none after a later one, however the    *)
(* reading thread runs between its two accesses.  (It may return some       *)
(* never: a key that is stored between the two is cleared unseen.)          *)
KeysReturnedOnce ==
  [][client = "clear" /\ client' = "idle" /\ tmp # 0 => tmp > returned]_keyVars

(* The destructor returns if stop was called and a key is still to come.    *)
(* It needs both: the reading thread tests the flag between two keys only.  *)
DestructorReturns ==
  (stop_ /\ client = "join" /\ consumed < typed) ~> (client = "destroyed")
=============================================================================
