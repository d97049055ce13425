------------------------------- MODULE MCParts -------------------------------
(***************************************************************************)
(* The parts of the program that work by themselves, for one run: in every *)
(* behaviour one of them, part, does what it does and the others stay as   *)
(* they began.  (What they do together is in TlsClients and WizLights.)    *)
(***************************************************************************)
EXTENDS ValuesLog, Hashes, Aes128Cbc, TlsRecords, PemFiles, BigNumbers, RsaSlow,
        FramSettings, WizRecv

VARIABLE part

partsVars == <<part, valuesVars, hashVars, cbcVars, recVars, pemVars, bnVars, slowVars,
               settingsVars, wizRecvVars>>

-----------------------------------------------------------------------------
(* The data *)

\* SP 800-38A F.2.1, two of its blocks, and FIPS-197 appendices B and C.1.
MCVectors ==
  LET Block(s) == SubSeq(s, 1, 16)
      count0(n) == [i \in 1 .. 16 |-> n * (i - 1)]
      key == Block(<<43, 126, 21, 22, 40, 174, 210, 166, 171, 247, 21, 136, 9, 207, 79, 60>>)
  IN {[key |-> key, iv |-> Block(count0(1)),
       plain |->
        <<Block(<<107, 193, 190, 226, 46, 64, 159, 150, 233, 61, 126, 17, 115, 147, 23, 42>>),
          Block(<<174, 45, 138, 87, 30, 3, 172, 156, 158, 183, 111, 172, 69, 175, 142, 81>>)>>,
       crypt |->
        <<Block(<<118, 73, 171, 172, 129, 25, 178, 70, 206, 233, 142, 155, 18, 233, 25, 125>>),
          Block(<<80, 134, 203, 155, 80, 114, 25, 238, 149, 219, 17, 58, 145, 118, 120, 178>>)>>],
      [key |-> key, iv |-> Block(count0(0)),
       plain |-> <<Block(<<50, 67, 246, 168, 136, 90, 48, 141, 49, 49, 152, 162, 224, 55, 7, 52>>)>>,
       crypt |-> <<Block(<<57, 37, 132, 29, 2, 220, 9, 251, 220, 17, 133, 151, 25, 106, 11, 50>>)>>],
      [key |-> Block(count0(1)), iv |-> Block(count0(0)), plain |-> <<Block(count0(17))>>,
       crypt |-> <<Block(<<105, 196, 224, 216, 106, 123, 4, 48, 216, 205, 183, 128, 112, 180, 197, 90>>)>>]}

\* A number of n bytes.
Num(high, n) == [i \in 1 .. n |-> IF i = 1 THEN high ELSE (37 * i + n) % 256]

\* High bytes with and without their top bit, numbers as long as their arrays and shorter.
\* The first key takes the longest form of a length, the second the next.
MCPemKeys ==
  {<<<<>>, Num(200, 70), <<1, 0, 1>>, Num(90, 69), Num(255, 64), Num(128, 64), Num(127, 64),
     Num(1, 63), Num(60, 62)>>,
   <<<<>>, Num(128, 40), <<3>>, Num(3, 39), Num(255, 10), Num(128, 10), Num(127, 9),
     Num(130, 9), Num(200, 10)>>}

MCCertificates == {Num(48, n) : n \in 5 .. 7}
MCLineEnds == {<<10>>, <<13, 10>>}

MCBnPowers == {<<2, 1, 3>>, <<257, 5, 257>>, <<43690, 46340, 46337>>, <<7, 32768, 40009>>,
               <<46340, 0, 255>>, <<300, 65535, 46340>>}
MCBnTexts == {<<>>, <<0>>, <<15, 15>>, <<1, 0, 15, 15>>, <<15, 15, 15, 15>>, <<9, 15, 15, 14, 15>>}

\* The second has no exponent: it is refused.
MCSlowCalls == {<<7, 5, 33>>, <<7, 0, 10>>, <<13, 6, 11>>, <<3, 1, 5>>}

\* All a light has to say, as little as it has to say, and a name that is not known.
MCWizStatuses ==
  {<<>>,
   <<<<"mac", "a8bb50">>, <<"rssi", "-60">>, <<"src", "">>, <<"state", "true">>,
     <<"sceneId", "0">>, <<"temp", "2700">>, <<"dimming", "50">>>>,
   <<<<"rssi", "-71">>, <<"state", "false">>>>,
   <<<<"fwVersion", "1.2">>, <<"state", "true">>>>}

-----------------------------------------------------------------------------
PartsInit ==
  /\ PemInit
  /\ part \in {"values", "hashes", "cbc", "records", "pem", "numbers", "slow", "settings", "wiz"}
  /\ part = "pem" \/ (pemGiven = Num(48, 5) /\ pemText = PemOf(pemGiven, 64, <<10>>))
  /\ ValuesInit /\ (part = "values" \/ writeSize = 0)
  /\ HashInit /\ (part = "hashes" \/ hashKey = Given("key", 20))
  /\ CbcInit /\ (part = "cbc" \/ Len(cbcBuf) = 2)
  /\ RecInit /\ (part = "records" \/ ~ resume)
  /\ BnInit
  /\ RsaSlowInit
  /\ SettingsInit
  /\ WizRecvInit

PartsNext ==
  /\ UNCHANGED part
  /\ IF part = "values"   THEN ValuesNext   ELSE UNCHANGED valuesVars
  /\ IF part = "hashes"   THEN HashNext     ELSE UNCHANGED hashVars
  /\ IF part = "cbc"      THEN CbcNext      ELSE UNCHANGED cbcVars
  /\ IF part = "records"  THEN RecNext      ELSE UNCHANGED recVars
  /\ IF part = "pem"      THEN PemNext      ELSE UNCHANGED pemVars
  /\ IF part = "numbers"  THEN BnNext       ELSE UNCHANGED bnVars
  /\ IF part = "slow"     THEN RsaSlowNext  ELSE UNCHANGED slowVars
  /\ IF part = "settings" THEN SettingsNext ELSE UNCHANGED settingsVars
  /\ IF part = "wiz"      THEN WizRecvNext  ELSE UNCHANGED wizRecvVars

PartsSpec == PartsInit /\ [][PartsNext]_partsVars /\ ValuesFairness

=============================================================================
