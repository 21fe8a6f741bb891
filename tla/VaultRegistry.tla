--------------------------- MODULE VaultRegistry ----------------------------
(***************************************************************************)
(* VaultRegistry.sol and libraries/VaultMetadataExtension.sol: the vaults  *)
(* of the reserve, with the weight that each was given at the last         *)
(* calibration, and the schedule on which the weight moves there.  The     *)
(* flow parameters in the metadata are modelled in VaultSafetyMode.        *)
(*                                                                         *)
(* A removed vault loses its metadata; here a vault that is not registered *)
(* has NoMetadata.  The weights fit the 64 bits they are narrowed to: they *)
(* add up to ONE, that is to 10^18.                                        *)
(***************************************************************************)
EXTENDS FixedPoint, Sequences, FiniteSetsExt

CONSTANTS
    Vaults,             \* vaults that governance may register
    Configurations      \* arguments of setVaults: sequences of entries, see Entries

VARIABLES
    now,                \* block.timestamp
    vaultAddresses,     \* registered vaults, in the sequence in which they were given
    vaultsMetadata

registryVars == <<vaultAddresses, vaultsMetadata>>

Entries == [vaultAddress : Vaults,
            priceAtCalibration : Nat \ {0},
            weightAtCalibration : Nat,
            weightTransitionDuration : Nat]

ASSUME ConfigurationsAssumption == Configurations \subseteq Seq(Entries)

Metadata == [priceAtCalibration : Nat,
             weightAtCalibration : Nat,
             weightAtPreviousCalibration : Nat,
             weightTransitionDuration : Nat,
             timeOfCalibration : Nat]

NoMetadata == [priceAtCalibration |-> 0,
               weightAtCalibration |-> 0,
               weightAtPreviousCalibration |-> 0,
               weightTransitionDuration |-> 0,
               timeOfCalibration |-> 0]

Registered == Range(vaultAddresses)

RegistryTypeOK ==
    /\ now \in Nat
    /\ vaultAddresses \in Seq(Vaults)
    /\ vaultsMetadata \in [Vaults -> Metadata]
    /\ \A v \in Vaults : vaultsMetadata[v].timeOfCalibration <= now
    /\ \A v \in Vaults : v \in Registered <=> vaultsMetadata[v].priceAtCalibration > 0

RegistryInit ==
    /\ vaultAddresses = <<>>
    /\ vaultsMetadata = [v \in Vaults |-> NoMetadata]

-----------------------------------------------------------------------------

\* scheduleWeight: linear in the time since the calibration.
ScheduleWeight(metadata) ==
    LET since == now - metadata.timeOfCalibration
        multiplier == DivDown(since, metadata.weightTransitionDuration)
        difference == AbsSub(metadata.weightAtCalibration, metadata.weightAtPreviousCalibration)
        delta == MulDown(difference, multiplier)
    IN  IF since >= metadata.weightTransitionDuration THEN metadata.weightAtCalibration
        ELSE IF metadata.weightAtCalibration > metadata.weightAtPreviousCalibration
        THEN metadata.weightAtPreviousCalibration + delta
        ELSE metadata.weightAtPreviousCalibration - delta

\* The transition to the calibrated weight is over.
Settled(metadata) == now - metadata.timeOfCalibration >= metadata.weightTransitionDuration

\* mutant: the previous weight is forgotten
CalibrationFromZero(entry) ==
    [priceAtCalibration |-> entry.priceAtCalibration,
     weightAtCalibration |-> entry.weightAtCalibration,
     weightAtPreviousCalibration |-> 0,
     weightTransitionDuration |-> entry.weightTransitionDuration,
     timeOfCalibration |-> now]

\* mutant: the transition is dated at its end
CalibrationAtEnd(entry) ==
    [CalibrationFromZero(entry) EXCEPT !.timeOfCalibration = now + entry.weightTransitionDuration]

\* The metadata that an entry gives its vault.  The previous weight is the calibrated
\* one, even where the schedule has not reached it.
Calibration(entry) ==
    [priceAtCalibration |-> entry.priceAtCalibration,
     weightAtCalibration |-> entry.weightAtCalibration,
     weightAtPreviousCalibration |-> vaultsMetadata[entry.vaultAddress].weightAtCalibration,
     weightTransitionDuration |-> entry.weightTransitionDuration,
     timeOfCalibration |-> now]

\* setVaults of the registry: only the reserve manager calls it.
RegisterVaults(config, supported) ==
    LET new == [i \in DOMAIN config |-> config[i].vaultAddress]
    IN  /\ Range(new) \subseteq supported
        /\ IsInjective(new)
        /\ MapThenSumSet(LAMBDA i : config[i].weightAtCalibration, DOMAIN config) = ONE
        /\ vaultAddresses' = new
        /\ vaultsMetadata' = [v \in Vaults |->
                IF v \in Range(new)
                THEN Calibration(config[CHOOSE i \in DOMAIN config : new[i] = v])
                ELSE NoMetadata]

=============================================================================
