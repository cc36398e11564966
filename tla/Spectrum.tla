------------------------------ MODULE Spectrum ------------------------------
(***************************************************************************)
(* The real FFT of the frontend (frontend/kissfft.go): the mixed radix     *)
(* decimation in time, the butterflies, and the real input packed into a   *)
(* complex one of half the size.                                           *)
(*                                                                         *)
(* What is kept is where each number goes and what it is multiplied by.    *)
(* The rounding of each step is not: numbers are exact, in a field that    *)
(* has all that a Fourier transform of up to 32 points needs.  It is the   *)
(* field of P^2 elements, the complex numbers modulo the prime P = 31: as  *)
(* 31 is 3 modulo 4, -1 has no root modulo P, conjugation inverts the      *)
(* numbers of norm 1, and these are the 32 powers of one of them.          *)
(***************************************************************************)
EXTENDS Integers, Sequences, SequencesExt

P == 31
Residues == 0 .. P - 1

Complex(re, im) == <<re % P, im % P>>
cAdd(a, b) == Complex(a[1] + b[1], a[2] + b[2])
cSub(a, b) == Complex(a[1] - b[1], a[2] - b[2])
cMul(a, b) == Complex(a[1] * b[1] - a[2] * b[2], a[1] * b[2] + a[2] * b[1])
Conjugate(a) == Complex(a[1], -a[2])

Inverse31(k) == CHOOSE r \in Residues : (r * k) % P = 1 % P
cFixDiv(a, div) == Complex(a[1] * Inverse31(div), a[2] * Inverse31(div))

Power(a, n) == FoldLeft(LAMBDA b, i : cMul(b, a), <<1, 0>>, [i \in 1 .. n |-> i])

\* exp(-2 pi i / 32): a number of norm 1 whose 8th power is -i
Root32 == CHOOSE g \in Residues \X Residues : cMul(g, Conjugate(g)) = <<1, 0>> /\ Power(g, 8) = <<0, P - 1>>

Powers == [n \in 0 .. 31 |-> Power(Root32, n)]

\* exp(-2 pi i k / n), for a power of two n up to 32
Turn(k, n) == Powers[(k * (32 \div n)) % 32]

-----------------------------------------------------------------------------
\* p of factor, advanced until it divides n.
NextRadix(p, floorSqrt, n) ==
  LET q == IF p = 4 THEN 2 ELSE IF p = 2 THEN 3 ELSE p + 2
  IN IF q > floorSqrt THEN n ELSE q

Radix(p, floorSqrt, n) ==
  LET radix[q \in Nat \ {0}] == IF n % q = 0 THEN q ELSE radix[NextRadix(q, floorSqrt, n)]
  IN radix[p]

FactorFrom(p, floorSqrt, n) ==
  LET factors[q \in Nat \ {0}, rest \in Nat] ==
        LET r == Radix(q, floorSqrt, rest)
        IN <<r, rest \div r>> \o (IF rest \div r <= 1 THEN << >> ELSE factors[r, rest \div r])
  IN factors[p, n]

FloorSqrt(n) == CHOOSE s \in 0 .. n : s * s <= n /\ (s + 1) * (s + 1) > n

factor(n) == FactorFrom(4, FloorSqrt(n), n)

\* newKissFFT refuses other radixes, newKissFFTR odd sizes.
RadixesOK(n) == \A i \in 1 .. Len(factor(n)) : i % 2 = 1 => factor(n)[i] \in {2, 4}
SizeOK(nfft) == nfft % 2 = 0 /\ RadixesOK(nfft \div 2)

\* newFFT: the next power of two.
fftSize(inputSize) ==
  LET grown[size \in Nat] == IF size < inputSize THEN grown[2 * size] ELSE size
  IN grown[1]

-----------------------------------------------------------------------------
(* The butterflies on the p*m points of fout, numbered from 1, for a      *)
(* transform of nfft points.                                              *)

bfly2(fout, fstride, m, nfft) ==
  LET a(k) == cFixDiv(fout[k + 1], 2)
      t(k) == cMul(cFixDiv(fout[k + m + 1], 2), Turn(k * fstride, nfft))
  IN [n \in 1 .. 2 * m |-> IF n <= m THEN cAdd(a(n - 1), t(n - 1)) ELSE cSub(a(n - m - 1), t(n - m - 1))]

\* Mutant: the twiddles of the second and third quarters swapped.
Bfly4Swapped(fout, fstride, m, nfft) ==
  LET f(k, q) == cMul(cFixDiv(fout[k + q * m + 1], 4), Turn(((4 - q) % 4) * k * fstride, nfft))
      even(k) == cAdd(f(k, 0), f(k, 2))   five(k)  == cSub(f(k, 0), f(k, 2))
      three(k) == cAdd(f(k, 1), f(k, 3))  four(k)  == cSub(f(k, 1), f(k, 3))
      quarter(k, q) ==
        CASE q = 0 -> cAdd(even(k), three(k))
          [] q = 2 -> cSub(even(k), three(k))
          [] q = 1 -> Complex(five(k)[1] + four(k)[2], five(k)[2] - four(k)[1])
          [] q = 3 -> Complex(five(k)[1] - four(k)[2], five(k)[2] + four(k)[1])
  IN [n \in 1 .. 4 * m |-> quarter((n - 1) % m, (n - 1) \div m)]

\* five, three and four are scratch[5], scratch[3] and scratch[4].
bfly4(fout, fstride, m, nfft) ==
  LET f(k, q) == cMul(cFixDiv(fout[k + q * m + 1], 4), Turn(q * k * fstride, nfft))
      even(k) == cAdd(f(k, 0), f(k, 2))   five(k)  == cSub(f(k, 0), f(k, 2))
      three(k) == cAdd(f(k, 1), f(k, 3))  four(k)  == cSub(f(k, 1), f(k, 3))
      quarter(k, q) ==
        CASE q = 0 -> cAdd(even(k), three(k))
          [] q = 2 -> cSub(even(k), three(k))
          [] q = 1 -> Complex(five(k)[1] + four(k)[2], five(k)[2] - four(k)[1])
          [] q = 3 -> Complex(five(k)[1] - four(k)[2], five(k)[2] + four(k)[1])
  IN [n \in 1 .. 4 * m |-> quarter((n - 1) % m, (n - 1) \div m)]

\* stage is where the factors left begin.
work(fin, factors, nfft) ==
  LET fout[fidx \in Nat, fstride \in Nat, stage \in 1 .. Len(factors)] ==
        LET p == factors[stage]
            m == factors[stage + 1]
            part(j) == IF m = 1 THEN <<fin[fidx + j * fstride + 1]>>
                       ELSE fout[fidx + j * fstride, fstride * p, stage + 2]
            parts == FlattenSeq([j \in 1 .. p |-> part(j - 1)])
        IN IF p = 2 THEN bfly2(parts, fstride, m, nfft) ELSE bfly4(parts, fstride, m, nfft)
  IN fout[0, 1, 1]

transform(fin) == work(fin, factor(Len(fin)), Len(fin))

\* kissFFTR.transform: bins 0 to ncfft of the real samples, which are numbered from 1.
realTransform(timedata) ==
  LET ncfft  == Len(timedata) \div 2
      packed == [k \in 1 .. ncfft |-> Complex(timedata[2 * k - 1], timedata[2 * k])]
      tmpbuf == transform(packed)
      tdc    == cFixDiv(tmpbuf[1], 2)
      fpk(k)  == cFixDiv(tmpbuf[k + 1], 2)
      fpnk(k) == cFixDiv(Conjugate(tmpbuf[ncfft - k + 1]), 2)
      f1k(k) == cAdd(fpk(k), fpnk(k))
      \* superTwiddles[k-1] is exp(-i pi (k/ncfft + 1/2))
      tw(k)  == cMul(cSub(fpk(k), fpnk(k)), cMul(Turn(k, 2 * ncfft), <<0, P - 1>>))
      half(a) == cFixDiv(a, 2)
      ends   == [k \in 0 .. ncfft |-> IF k = 0 THEN Complex(tdc[1] + tdc[2], 0)
                                      ELSE IF k = ncfft THEN Complex(tdc[1] - tdc[2], 0) ELSE <<0, 0>>]
  IN FoldLeft(LAMBDA bins, k :
                [bins EXCEPT ![k] = half(cAdd(f1k(k), tw(k))),
                             ![ncfft - k] = half(Conjugate(cSub(f1k(k), tw(k))))],
              ends, [k \in 1 .. ncfft \div 2 |-> k])

-----------------------------------------------------------------------------
\* The discrete Fourier transform over the number of samples.
Fourier(x, k) ==
  LET n == Len(x)
  IN cFixDiv(FoldLeft(LAMBDA s, i : cAdd(s, cMul(<<x[i] % P, 0>>, Turn((i - 1) * k, n))),
                      <<0, 0>>, [i \in 1 .. n |-> i]), n)
=============================================================================
