----------------------------- MODULE Heartbeat -----------------------------
(***************************************************************************)
(* The timeout of a service call (is_heartbeat_timeout), with the widths   *)
(* of its integers.  The world time is a 64-bit count of microseconds, but *)
(* the time of a request is kept in heartbeat_confirmed_time_, an int.     *)
(* ServiceRpc leaves the clock out: there a client may time out whenever   *)
(* its poll finds no response.                                             *)
(***************************************************************************)
EXTENDS Integers, TLAPS

IntSize == 4294967296
IntMax == 2147483647

\* World times in microseconds; a run does not reach 2^63 of them.
Times == Nat

\* timeout_msec * 1000 is an int.  Where it does not fit C++ leaves it
\* undefined, so only timeouts below 36 minutes have a meaning.
Timeouts == {timeout_msec \in Int : timeout_msec * 1000 <= IntMax}

\* What an int holds of a time.
ToInt(time) == IF time % IntSize <= IntMax THEN time % IntSize
               ELSE (time % IntSize) - IntSize

\* is_heartbeat_timeout at the world time now, for a request made at sent.
IsHeartbeatTimeout(sent, now, timeout_msec) ==
  /\ timeout_msec > 0
  /\ now - ToInt(sent) > timeout_msec * 1000

\* What it is for: there is a timeout, and it has passed.
Late(sent, now, timeout_msec) ==
  /\ timeout_msec > 0
  /\ now - sent > timeout_msec * 1000

(* A request of the first 2^31 microseconds of a run, 35 minutes and 47    *)
(* seconds, is timed out when it is late and not before, whatever the time *)
(* of the poll that asks (hako_service_protocol_client.hpp:59).            *)
THEOREM TimeoutExact ==
  ASSUME NEW sent \in Times, NEW now \in Times, NEW timeout_msec \in Timeouts,
         sent <= IntMax
  PROVE  IsHeartbeatTimeout(sent, now, timeout_msec) <=> Late(sent, now, timeout_msec)
<1>1. sent % IntSize = sent
  BY SMT DEF Times, IntMax, IntSize
<1> QED
  BY <1>1, SMT DEF IsHeartbeatTimeout, Late, ToInt

(* Every later request that has a timeout at all is timed out by the first *)
(* poll that finds no response (hako_service_protocol_client.cpp:117),     *)
(* even at the time of the request: what the int holds of that time is at  *)
(* least 2^32 microseconds too early, more than any timeout.               *)
THEOREM TimeoutAtOnce ==
  ASSUME NEW sent \in Times, NEW now \in Times, NEW timeout_msec \in Timeouts,
         sent > IntMax, now >= sent, timeout_msec > 0
  PROVE  IsHeartbeatTimeout(sent, now, timeout_msec)
<1> DEFINE low == sent % IntSize
<1>1. /\ low \in Nat /\ low <= sent
      /\ low > IntMax \/ sent - low >= IntSize
  BY SMT DEF Times, IntSize, IntMax
<1> HIDE DEF low
<1>2. ToInt(sent) = IF low <= IntMax THEN low ELSE low - IntSize
  BY DEF ToInt, low
<1>3. ToInt(sent) \in Int /\ sent - ToInt(sent) >= IntSize
  <2>1. CASE low <= IntMax
    BY <1>1, <1>2, <2>1, SMT DEF IntSize, IntMax, Times
  <2>2. CASE ~(low <= IntMax)
    <3>1. ToInt(sent) = low - IntSize
      BY <1>2, <2>2
    <3> QED
      BY <1>1, <3>1, SMT DEF IntSize, Times
  <2> QED
    BY <2>1, <2>2
<1> QED
  BY <1>3, SMT DEF IsHeartbeatTimeout, Timeouts, Times, IntSize, IntMax
=============================================================================
