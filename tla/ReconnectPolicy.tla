---------------------------- MODULE ReconnectPolicy ----------------------------
(***************************************************************************)
(* rdt-types/src/proto.rs, ReconnectPolicy: how long to wait before the    *)
(* next attempt.  The code computes in 64 bits; here a number is below     *)
(* Word.  An addition that overflows wraps in a release build, which is    *)
(* what is modelled, and panics in a debug build.  The policy of a profile *)
(* is used as it was read: nothing calls validate.                         *)
(***************************************************************************)
EXTENDS Integers

CONSTANTS
    Word,       \* one more than the largest number
    MaxAttempt  \* the largest attempt

ASSUME WordAssumption == Word \in Nat \ {0} /\ MaxAttempt \in Nat

Numbers == 0..(Word - 1)
Attempts == 0..MaxAttempt

Policy ==
    [enabled : BOOLEAN, max_attempts : Attempts,
     initial_backoff_secs : Numbers, max_backoff_secs : Numbers]

Smaller(x, y) == IF x <= y THEN x ELSE y
Larger(x, y) == IF x <= y THEN y ELSE x

Retries(p, n) ==
    p.enabled /\ n # 0 /\ (p.max_attempts > 0 => n <= p.max_attempts)

(* The first delay doubles up to six times. *)
Factor(n) == <<1, 2, 4, 8, 16, 32, 64>>[Smaller(n, 7)]
Doubled(x, n) == Smaller(x * Factor(n), Word - 1)   \* saturating_mul

Cap(p) == Larger(p.max_backoff_secs, p.initial_backoff_secs)
Base(p, n) == Smaller(Doubled(p.initial_backoff_secs, n), Cap(p))
Jitter(base, n) == (base \div 4) * (n % 4)

NoDelay == -1
DelayUncapped(p, n) ==
    IF ~Retries(p, n) THEN NoDelay
    ELSE LET base == Base(p, n)
         IN (base + Jitter(base, n)) % Word
DelayFor(p, n) ==
    IF ~Retries(p, n) THEN NoDelay
    ELSE LET base == Base(p, n)
         IN Smaller((base + Jitter(base, n)) % Word, Larger(p.max_backoff_secs, base))

(* ReconnectPolicy::validate *)
ValidPolicy(p) ==
    p.initial_backoff_secs > 0 /\ p.initial_backoff_secs <= p.max_backoff_secs

(* No sum of the policy's delays and jitters leaves the numbers: seven quarters
   of its cap are below Word. *)
Fits(p) == 7 * Cap(p) < 4 * Word

(* A session with some policy; each attempt asks for the delay before it. *)
VARIABLES policy, attempt
retryVars == <<policy, attempt>>

RetryInit == policy \in Policy /\ attempt = 0
NextAttempt ==
    /\ attempt < MaxAttempt
    /\ attempt' = attempt + 1
    /\ UNCHANGED policy
RetrySpec == RetryInit /\ [][NextAttempt]_retryVars

(* delay_for, proto.rs:540-557: a wait is never longer than the larger of the
   two bounds, whatever they are; unless they are so large that the sum
   overflows, it is never shorter than the first bound, however many attempts
   there were, so a valid policy never retries at once. *)
DelayInBounds ==
    Retries(policy, attempt) =>
        /\ DelayFor(policy, attempt) \in 0..Cap(policy)
        /\ Fits(policy) => DelayFor(policy, attempt) >= policy.initial_backoff_secs
        /\ Fits(policy) /\ ValidPolicy(policy) =>
              DelayFor(policy, attempt) \in 1..policy.max_backoff_secs
================================================================================
