------------------------------- MODULE Storage -------------------------------
(***************************************************************************)
(* What a Storage::Disk::BlockDevice promises its callers, with no word of *)
(* sectors, buffers or write-back: a byte-addressable store whose contents *)
(* are known exactly to readers and, between two calls of sync, only       *)
(* approximately to whoever finds the medium after a power loss.           *)
(*                                                                         *)
(*   view[a]  the values a read of byte a may return.  One value, except   *)
(*            for the bytes of a range whose erase has failed.             *)
(*   may[a]   the values byte a may have when the device comes back after  *)
(*            its memory is lost.                                          *)
(*   req      the call in progress; data is the source of a write, or the  *)
(*            part of the destination of a read that has been filled.      *)
(*   ret      what the last call returned; "reset" after the memory is     *)
(*            lost.                                                        *)
(*                                                                         *)
(* Every step may also resolve uncertainty (view and may shrink): that is  *)
(* the write-back a caller cannot see.                                     *)
(***************************************************************************)
EXTENDS Integers

CONSTANTS Size,     \* bytes on the device
          Byte,     \* values of a byte
          Erased    \* value of a byte after an erase

VARIABLES view, may, req, ret

Addr == 0 .. Size - 1

Idle == [fn |-> "idle", addr |-> 0, data |-> [k \in {} |-> Erased], done |-> 0]

Total == DOMAIN req.data

\* The bytes of the call between its progress and n bytes further.
Transfer(n) == {req.addr + req.done + k : k \in 0 .. n - 1}

\* view and may change only as a write-back changes them, except on A.
SettleOutside(A) ==
  \A a \in Addr \ A : view'[a] # {} /\ view'[a] \subseteq view[a] /\ may'[a] \subseteq may[a]

Settle == SettleOutside({})

\* The n bytes after the progress of a write are stored: readers see them at
\* once, a power loss may or may not.
Store(n) ==
  /\ SettleOutside(Transfer(n))
  /\ \A a \in Transfer(n) :
       LET v == req.data[a - req.addr] IN
       /\ view'[a] = {v}
       /\ may'[a] \subseteq may[a] \cup {v}

Init ==
  /\ \E c \in [Addr -> Byte] :
       /\ view = [a \in Addr |-> {c[a]}]
       /\ may = [a \in Addr |-> {c[a]}]
  /\ req = Idle
  /\ ret = "reset"

Begin ==
  /\ req = Idle
  /\ req'.fn # "idle"
  /\ req'.done = 0
  /\ UNCHANGED <<view, may, ret>>

\* The next n bytes of a read: each byte is one that a read may return.
ReadSome ==
  /\ req.fn = "read"
  /\ \E n \in 1 .. Size :
       /\ Transfer(n) \subseteq Addr
       /\ req'.done = req.done + n
       /\ \A k \in Total :
            IF k \in req.done .. req.done + n - 1
              THEN req'.data[k] \in view[req.addr + k]
              ELSE req'.data[k] = req.data[k]
  /\ req'.fn = "read" /\ req'.addr = req.addr /\ DOMAIN req'.data = Total
  /\ Settle
  /\ UNCHANGED ret

WriteSome ==
  /\ req.fn = "write"
  /\ \E n \in 1 .. Size :
       /\ req.done + n - 1 \in Total
       /\ Store(n)
       /\ req' = [req EXCEPT !.done = @ + n]
  /\ UNCHANGED ret

\* A read or write returns true only when every byte has been transferred.
Return ==
  /\ req.fn \in {"read", "write"}
  /\ req.done \notin Total
  /\ req' = Idle /\ ret' = "true"
  /\ Settle

\* It may fail at any point; a failed write may have stored a prefix.
Fail ==
  /\ req.fn \in {"read", "write"}
  /\ req' = Idle /\ ret' = "false"
  /\ \/ Settle
     \/ /\ req.fn = "write"
        /\ \E n \in 1 .. Size : req.done + n - 1 \in Total /\ Store(n)

\* A successful erase of the range R; a failed one leaves each byte of R with
\* the value it had or erased, and readers may see either.
Erase ==
  /\ req = Idle
  /\ \E first \in Addr, n \in 0 .. Size :
       LET R == first .. first + n - 1 IN
       /\ SettleOutside(R)
       /\ \A a \in R \cap Addr :
            /\ view'[a] # {} /\ may'[a] \subseteq may[a] \cup {Erased}
            /\ view'[a] \subseteq IF ret' = "true" THEN {Erased} ELSE view[a] \cup {Erased}
  /\ ret' \in {"true", "false"}
  /\ UNCHANGED req

\* After a successful sync a power loss brings back what a read would return.
Sync ==
  /\ req.fn = "sync"
  /\ req' = Idle
  /\ ret' \in {"true", "false"}
  /\ Settle
  /\ ret' = "true" => \A a \in Addr : may'[a] \subseteq view'[a]

\* Changing the number of buffers changes nothing a caller can read.
AllocateBuffers ==
  /\ req.fn = "alloc"
  /\ req' = Idle
  /\ ret' \in {"true", "false"}
  /\ Settle

\* The device's memory is lost (power loss, or the device object deleted).
Reset ==
  /\ req' = Idle /\ ret' = "reset"
  /\ \A a \in Addr : \E v \in may[a] : view'[a] = {v} /\ may'[a] \subseteq may[a]

WriteBack == UNCHANGED <<req, ret>> /\ Settle

Next == \/ Begin \/ WriteBack \/ ReadSome \/ WriteSome \/ Return \/ Fail
        \/ Sync \/ AllocateBuffers \/ Reset \/ Erase

Spec == Init /\ [][Next]_<<view, may, req, ret>>
==============================================================================
