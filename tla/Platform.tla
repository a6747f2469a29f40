------------------------------ MODULE Platform ------------------------------
(***************************************************************************)
(* The components that share no state with each other, side by side: the   *)
(* life of stored evidence, sealing, membership, wallet sign-in, the API's *)
(* rate limits, the browser uploader, two contracts, the Merkle trees and  *)
(* the verifier.                                                           *)
(*                                                                         *)
(* No action of one reads or writes a variable of another, so a property   *)
(* of one component holds in all behaviours of the product exactly when it *)
(* holds in those where only that component moves.  The component that     *)
(* moves is chosen at the start, which keeps the sum of the state spaces   *)
(* in place of their product.                                              *)
(***************************************************************************)
EXTENDS Retention, Sealing, Membership, SignIn, RateLimit,
        Uploader, CachePayments, DonationEscrow, Merkle, Verification

VARIABLES focus

platformVars ==
  <<focus, retentionVars, sealingVars, membershipVars, signInVars, rateVars,
    uploaderVars, cacheVars, donationVars, merkleVars, verificationVars>>

AnyIp == CHOOSE i \in Ips : TRUE

AnyHolder == CHOOSE h \in Holders : TRUE

AnySubject == CHOOSE s \in Subjects : TRUE

PlatformInit ==
  /\ focus \in {"retention", "sealing", "membership", "sign-in", "rate limit",
                "uploader", "cache", "donation", "merkle", "verification"}
  /\ RetentionInit /\ SealingInit /\ MembershipInit /\ SignInInit /\ RateInit
  /\ UploaderInit /\ CacheInit /\ DonationInit /\ MerkleInit /\ VerificationInit
  \* A component that does not move starts in one state.
  /\ focus # "rate limit" => \A c \in Calls : ip[c] = AnyIp /\ key[c] = BadKey
  /\ focus # "uploader" => apart
  /\ focus # "cache" => \A e \in Entries : entryOwner[e] = NoAddress
  /\ focus # "donation" => treasury = AnyHolder
  /\ focus # "verification" => doc = BuildEnvelope(AnySubject, {})

KeepServer == UNCHANGED <<retentionVars, sealingVars, membershipVars, signInVars, rateVars>>
KeepClient == UNCHANGED <<uploaderVars, cacheVars, donationVars, merkleVars, verificationVars>>

InRetention(step) ==
  /\ focus = "retention" /\ step
  /\ UNCHANGED <<focus, sealingVars, membershipVars, signInVars, rateVars>> /\ KeepClient

InSealing(step) ==
  /\ focus = "sealing" /\ step
  /\ UNCHANGED <<focus, retentionVars, membershipVars, signInVars, rateVars>> /\ KeepClient

InMembership(step) ==
  /\ focus = "membership" /\ step
  /\ UNCHANGED <<focus, retentionVars, sealingVars, signInVars, rateVars>> /\ KeepClient

InSignIn(step) ==
  /\ focus = "sign-in" /\ step
  /\ UNCHANGED <<focus, retentionVars, sealingVars, membershipVars, rateVars>> /\ KeepClient

InRateLimit(step) ==
  /\ focus = "rate limit" /\ step
  /\ UNCHANGED <<focus, retentionVars, sealingVars, membershipVars, signInVars>> /\ KeepClient

InUploader(step) ==
  /\ focus = "uploader" /\ step
  /\ UNCHANGED <<focus, cacheVars, donationVars, merkleVars, verificationVars>> /\ KeepServer

InCache(step) ==
  /\ focus = "cache" /\ step
  /\ UNCHANGED <<focus, uploaderVars, donationVars, merkleVars, verificationVars>> /\ KeepServer

InDonation(step) ==
  /\ focus = "donation" /\ step
  /\ UNCHANGED <<focus, uploaderVars, cacheVars, merkleVars, verificationVars>> /\ KeepServer

InMerkle(step) ==
  /\ focus = "merkle" /\ step
  /\ UNCHANGED <<focus, uploaderVars, cacheVars, donationVars, verificationVars>> /\ KeepServer

InVerification(step) ==
  /\ focus = "verification" /\ step
  /\ UNCHANGED <<focus, uploaderVars, cacheVars, donationVars, merkleVars>> /\ KeepServer

PlatformNext ==
  \/ InRetention(RetentionNext) \/ InSealing(SealingNext)
  \/ InMembership(MembershipNext) \/ InSignIn(SignInNext) \/ InRateLimit(RateNext)
  \/ InUploader(UploaderNext) \/ InCache(CacheNext) \/ InDonation(DonationNext)
  \/ InMerkle(MerkleNext) \/ InVerification(VerificationNext)

PlatformSpec == PlatformInit /\ [][PlatformNext]_platformVars

\* The cron of the retention sweep comes back every day, and does not die
\* before its delete for ever.
PlatformFairSpec ==
  /\ PlatformSpec
  /\ \A s \in SweepCrons :
       /\ WF_platformVars(InRetention(Sweep(s)))
       /\ SF_platformVars(InRetention(DeleteSelected(s)))

\* What a report says stands on what was signed and on what the chains hold
\* (ReportIsSound of Verification).  Looked at where a document changes:
\* elsewhere it is the one of PlatformInit.
SoundReports == focus = "verification" => ReportIsSound

\* A document that went only through the functions of the packages never
\* fails (HonestIsNeverInvalid of Verification).
HonestPasses == focus = "verification" => HonestIsNeverInvalid
=============================================================================
