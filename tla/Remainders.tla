----------------------------- MODULE Remainders -----------------------------
(***************************************************************************)
(* Facts about remainders that the proofs of the rings, counters and       *)
(* repeated captures need.                                                 *)
(***************************************************************************)
EXTENDS Integers, TLAPS

\* Quotient and remainder make up the number.
LEMMA ModIs ==
  ASSUME NEW m \in Nat, NEW n \in Nat \ {0}
  PROVE  m % n \in 0 .. n - 1 /\ m \div n \in Nat /\ m = n * (m \div n) + (m % n)
  OBVIOUS

\* No other remainder does.
LEMMA ModUnique ==
  ASSUME NEW q \in Int, NEW n \in Nat \ {0}, NEW r \in 0 .. n - 1, NEW m \in Nat, m = n * q + r
  PROVE  m % n = r
  OBVIOUS

LEMMA ModSmall == ASSUME NEW n \in Nat \ {0}, NEW m \in 0 .. n - 1 PROVE m % n = m
  OBVIOUS

\* A remainder may be taken before or after adding.
LEMMA ModSum ==
  ASSUME NEW m \in Nat, NEW k \in Nat, NEW n \in Nat \ {0}
  PROVE  ((m % n) + k) % n = (m + k) % n
<1>1. PICK q \in Nat : m = n * q + (m % n) BY ModIs
<1>2. (m % n) + k \in Nat /\ m % n \in Nat BY ModIs
<1>3. PICK p \in Nat : (m % n) + k = n * p + (((m % n) + k) % n) BY <1>2, ModIs
<1>4. ((m % n) + k) % n \in 0 .. n - 1 BY <1>2, ModIs
<1>5. n * (q + p) = n * q + n * p OBVIOUS
<1>6. m + k = n * (q + p) + (((m % n) + k) % n) BY <1>1, <1>2, <1>3, <1>4, <1>5
<1>7. q + p \in Int /\ m + k \in Nat OBVIOUS
<1>8. PICK a \in Int, b \in Nat, r \in 0 .. n - 1 :
        a = q + p /\ b = m + k /\ r = ((m % n) + k) % n BY <1>4, <1>7
<1>9. b = n * a + r BY <1>6, <1>8
<1>10. b % n = r BY <1>9, ModUnique
<1>11. QED BY <1>8, <1>10

LEMMA ModFull == ASSUME NEW m \in Nat, NEW n \in Nat \ {0} PROVE (n + m) % n = m % n
<1>1. PICK q \in Nat : m = n * q + (m % n) BY ModIs
<1>2. m % n \in 0 .. n - 1 BY ModIs
<1>3. n * (q + 1) = n * q + n OBVIOUS
<1>4. n + m = n * (q + 1) + (m % n) BY <1>1, <1>2, <1>3
<1>5. PICK a \in Int, b \in Nat, r \in 0 .. n - 1 : a = q + 1 /\ b = n + m /\ r = m % n
  BY <1>2, q + 1 \in Int, n + m \in Nat
<1>6. b = n * a + r BY <1>4, <1>5
<1>7. b % n = r BY <1>6, ModUnique
<1>8. QED BY <1>5, <1>7

\* One step back in a ring of n.
LEMMA ModBack ==
  ASSUME NEW m \in Nat \ {0}, NEW n \in Nat \ {0}
  PROVE  ((m % n) + n - 1) % n = (m - 1) % n
<1>1. PICK q \in Nat : m - 1 = n * q + ((m - 1) % n) BY m - 1 \in Nat, ModIs
<1>2. (m - 1) % n \in 0 .. n - 1 BY m - 1 \in Nat, ModIs
<1>3. m + (n - 1) = n * (q + 1) + ((m - 1) % n)
  <2>1. n * (q + 1) = n * q + n OBVIOUS
  <2>2. QED BY <1>1, <1>2, <2>1
<1>4. (m + (n - 1)) % n = (m - 1) % n
  <2>1. q + 1 \in Int /\ m + (n - 1) \in Nat OBVIOUS
  <2>2. PICK a \in Int, b \in Nat, r \in 0 .. n - 1 :
          a = q + 1 /\ b = m + (n - 1) /\ r = (m - 1) % n BY <1>2, <2>1
  <2>3. b = n * a + r BY <1>3, <2>2
  <2>4. b % n = r BY <2>3, ModUnique
  <2>5. QED BY <2>2, <2>4
<1>5. m % n \in Nat /\ n - 1 \in Nat BY ModIs
<1>6. ((m % n) + (n - 1)) % n = (m + (n - 1)) % n BY <1>5, ModSum
<1>7. (m % n) + n - 1 = (m % n) + (n - 1) BY <1>5
<1>8. QED BY <1>4, <1>6, <1>7

\* How far one place of a ring is behind another less than a round ahead.
LEMMA ModGap ==
  ASSUME NEW m \in Nat, NEW k \in Nat, NEW n \in Nat \ {0}, k <= m, m - k < n
  PROVE  ((m % n) + n - (k % n)) % n = m - k
<1>1. PICK q \in Nat : m = n * q + (m % n) BY ModIs
<1>2. PICK p \in Nat : k = n * p + (k % n) BY ModIs
<1>3. m % n \in 0 .. n - 1 /\ k % n \in 0 .. n - 1 BY ModIs
<1>4. n * (p + 1 - q) = n * p + n - n * q OBVIOUS
<1>5. (m % n) + n - (k % n) = n * (p + 1 - q) + (m - k) BY <1>1, <1>2, <1>3, <1>4
<1>6. p + 1 - q \in Int /\ m - k \in 0 .. n - 1 /\ (m % n) + n - (k % n) \in Nat BY <1>3
<1>7. PICK a \in Int, b \in Nat, r \in 0 .. n - 1 :
        a = p + 1 - q /\ b = (m % n) + n - (k % n) /\ r = m - k BY <1>6
<1>8. b = n * a + r BY <1>5, <1>7
<1>9. b % n = r BY <1>8, ModUnique
<1>10. QED BY <1>7, <1>9

\* Two places less than a round apart are not the same.
LEMMA ModApart ==
  ASSUME NEW m \in Nat, NEW k \in Nat, NEW n \in Nat \ {0}, k < m, m - k < n
  PROVE  m % n # k % n
<1>1. SUFFICES ASSUME m % n = k % n PROVE FALSE OBVIOUS
<1>2. m % n \in 0 .. n - 1 BY ModIs
<1>3. (m % n) + n - (m % n) = n BY <1>2
<1>4. ((m % n) + n - (k % n)) % n = m - k BY ONLY ModGap, m \in Nat, k \in Nat, n \in Nat \ {0}, k <= m, m - k < n
<1>5. n % n = 0 BY ModUnique
<1>6. QED BY <1>1, <1>3, <1>4, <1>5

=============================================================================
